---------------------------- MODULE Spec2Model ----------------------------
(***************************************************************************)
(* The network message layer of rapid: the stream wire codec               *)
(* (MessageSerializer), the stream connection (TCPMessageProtocol over an  *)
(* asyncio transport), the client that owns one connection (TCPClient),    *)
(* the listening Server of the stream and datagram variants, the datagram  *)
(* codec and protocol (rapid.networking.udp), the registries of message    *)
(* kinds (skeleton.net, skeleton.networking and the examples) and the      *)
(* route table of RoutingClient.                                           *)
(*                                                                         *)
(* Python bytes are sequences of integers in 0..255.  The Optional result  *)
(* of unpack is the empty tuple for None and <<type, payload>> otherwise.  *)
(***************************************************************************)
EXTENDS Integers, Sequences, FiniteSets, TLC

(***************************************************************************)
(* Bounds of the model.                                                    *)
(***************************************************************************)
MaxFrames == 2

\* the TCP connections one run may open, and the send calls it may make
MaxLinks == 1

MaxSends == 2

\* the exceptions that may leave the callbacks of the protocols in one run
MaxRaises == 2

\* the connections one client may open when it connects again
MaxReconnects == 2

\* the start and stop calls made on one Server
MaxStarts == 2

MaxStops == 2

\* the frames dispatched to one RoutingClient
MaxDispatches == 2

\* the message classes declared, and the values of their message_type
\* attribute: integers in and out of range, and one value that is not an int
MessageClasses == {"PlayerMoveAction", "GameUpdate", "Chat"}

MessageTypes ==
    {[int |-> TRUE, value |-> v] : v \in {-1, 0, 1, 8, 255, 256}}
        \cup {[int |-> FALSE, value |-> 0]}

\* the modules that keep a registry of message classes
Modules == {"skeleton.net", "skeleton.networking",
            "examples.networking_routing.messages",
            "examples.simple_networking.messages"}

\* the type codes and payloads of the frames handed to dispatch
DispatchTypes == {0, 1, 99}

DispatchPayloads == {<<>>, <<7>>}

\* the type codes the registry is asked about
TypeCodes ==
    {m.value : m \in MessageTypes} \cup DispatchTypes
        \cup (0..(Cardinality(MessageClasses) - 1))

\* a method that carries routing annotations: its name and the message
\* classes of its @handle decorators
Method(name, messages) == [name |-> name, messages |-> messages]

\* the scenes a RoutingClient is built for: their annotated methods in the
\* order of inspect.getmembers (by name)
Scenes ==
    << <<>>,
       <<Method("on_move", <<"PlayerMoveAction">>),
         Method("on_update", <<"GameUpdate">>)>>,
       <<Method("on_any", <<"PlayerMoveAction", "GameUpdate">>)>>,
       <<Method("on_move", <<"PlayerMoveAction">>),
         Method("on_move_too", <<"PlayerMoveAction">>)>>,
       <<Method("on_twice", <<"GameUpdate", "GameUpdate">>)>> >>

\* the longest byte string handed to unpack as it is
MaxBytes == 4

\* the byte strings handed to unpack whether they hold frames or not
ByteValues == {0, 1, 2, 255}

ByteStrings == UNION {[1..n -> ByteValues] : n \in 0..MaxBytes}

\* the type codes and payloads handed to the codec
CodecTypes == {1, 2, 256}

CodecPayloads == {<<>>, <<97>>, <<98, 98>>, <<0, 1, 0>>}

TypeSizes == {1, 2}

DataSizes == {1, 2}

ByteOrders == {"big", "little"}

\* the default widths of the stream serializer
TYPE_SIZE_BYTES == 1

TCP_MESSAGE_DATA_SIZE_BYTES == 2

\* the (type, payload) pairs handed to send: (1, b"ping") and (2, b"")
SendFrames == {<<1, <<112, 105, 110, 103>>>>, <<2, <<>>>>}

\* a TCP connection has a protocol object at each end
Sides == {"client", "server"}

Links == 1..MaxReconnects

Protocols == Sides \X Links

\* the protocol objects of a run that opens at most limit links
Opened(limit) == Sides \X (1..limit)

Peer(self) == <<IF self[1] = "client" THEN "server" ELSE "client", self[2]>>

None == <<>>

Min(a, b) == IF a < b THEN a ELSE b

(***************************************************************************)
(* Python primitives used by the codec.                                    *)
(***************************************************************************)
\* base ** exp
RECURSIVE Pow(_, _)
Pow(base, exp) == IF exp = 0 THEN 1 ELSE base * Pow(base, exp - 1)

\* int.to_bytes(length, byteorder) raises OverflowError outside this range
Fits(n, length) == 0 <= n /\ n < Pow(256, length)

\* to_bytes that ignores the byte order and always writes big-endian
to_bytes_always_big(n, length, byteorder) ==
    [i \in 1..length |-> (n \div Pow(256, length - i)) % 256]

\* int.to_bytes(length, byteorder)
to_bytes(n, length, byteorder) ==
    [i \in 1..length |->
        IF byteorder = "big"
        THEN (n \div Pow(256, length - i)) % 256
        ELSE (n \div Pow(256, i - 1)) % 256]

\* int.from_bytes(bytes, byteorder)
RECURSIVE from_bytes(_, _)
from_bytes(bytes, byteorder) ==
    IF bytes = <<>> THEN 0
    ELSE IF byteorder = "big"
         THEN 256 * from_bytes(SubSeq(bytes, 1, Len(bytes) - 1), byteorder)
              + bytes[Len(bytes)]
         ELSE bytes[1] + 256 * from_bytes(Tail(bytes), byteorder)

\* data[start:stop] on bytes: the stop is clamped to the length
Slice(data, start, stop) == SubSeq(data, start + 1, Min(stop, Len(data)))

\* data[start:]
SliceFrom(data, start) == SubSeq(data, start + 1, Len(data))

(***************************************************************************)
(* build_slices: the slice of every labelled segment, and "_total".        *)
(***************************************************************************)
RECURSIVE SegmentEnd(_, _)
SegmentEnd(segments, i) ==
    IF i = 0 THEN 0 ELSE SegmentEnd(segments, i - 1) + segments[i][2]

build_slices(segments) ==
    [label \in {segments[i][1] : i \in DOMAIN segments} \cup {"_total"} |->
        IF label = "_total"
        THEN [start |-> 0, stop |-> SegmentEnd(segments, Len(segments))]
        ELSE LET i == CHOOSE j \in DOMAIN segments : segments[j][1] = label
             IN [start |-> IF i = 1 THEN 0 ELSE SegmentEnd(segments, i - 1),
                 stop  |-> SegmentEnd(segments, i)]]

(***************************************************************************)
(* MessageSerializer                                                       *)
(***************************************************************************)
\* MessageSerializer.__init__
MessageSerializer(type_size_bytes, data_size_bytes, byteorder) ==
    [byteorder       |-> byteorder,
     type_size_bytes |-> type_size_bytes,
     data_size_bytes |-> data_size_bytes,
     fixed_slices    |-> build_slices(<< <<"msg_type", type_size_bytes>>,
                                         <<"msg_length", data_size_bytes>> >>)]

\* pack raises OverflowError (from int.to_bytes) on these inputs
PackRaises(self, type, data) ==
    \/ ~Fits(type, self.type_size_bytes)
    \/ ~Fits(Len(data), self.data_size_bytes)

\* pack that writes the length field before the type field
pack_length_first(self, type, data) ==
    to_bytes(Len(data), self.data_size_bytes, self.byteorder)
        \o to_bytes(type, self.type_size_bytes, self.byteorder)
        \o data

\* MessageSerializer.pack, on inputs that do not raise
pack(self, type, data) ==
    to_bytes(type, self.type_size_bytes, self.byteorder)
        \o to_bytes(Len(data), self.data_size_bytes, self.byteorder)
        \o data

\* unpack without the check that the whole payload has arrived
unpack_no_payload_check(self, data) ==
    IF Len(data) < self.fixed_slices["_total"].stop
    THEN <<None, data>>
    ELSE LET message_length ==
                 from_bytes(Slice(data, self.fixed_slices["msg_length"].start,
                                  self.fixed_slices["msg_length"].stop),
                            self.byteorder)
             data_start == self.fixed_slices["_total"].stop
             data_stop == data_start + message_length
             message_type ==
                 from_bytes(Slice(data, self.fixed_slices["msg_type"].start,
                                  self.fixed_slices["msg_type"].stop),
                            self.byteorder)
         IN << <<message_type, Slice(data, data_start, data_stop)>>,
               SliceFrom(data, data_stop) >>

\* unpack that cuts the remainder at the start of the payload
unpack_rest_from_data_start(self, data) ==
    IF Len(data) < self.fixed_slices["_total"].stop
    THEN <<None, data>>
    ELSE LET message_length ==
                 from_bytes(Slice(data, self.fixed_slices["msg_length"].start,
                                  self.fixed_slices["msg_length"].stop),
                            self.byteorder)
             data_start == self.fixed_slices["_total"].stop
             data_stop == data_start + message_length
         IN IF Len(data) < data_stop
            THEN <<None, data>>
            ELSE LET message_type ==
                         from_bytes(Slice(data, self.fixed_slices["msg_type"].start,
                                          self.fixed_slices["msg_type"].stop),
                                    self.byteorder)
                 IN << <<message_type, Slice(data, data_start, data_stop)>>,
                       SliceFrom(data, data_start) >>

\* unpack that takes everything after the header as the payload
unpack_payload_to_end(self, data) ==
    IF Len(data) < self.fixed_slices["_total"].stop
    THEN <<None, data>>
    ELSE LET data_start == self.fixed_slices["_total"].stop
             message_type ==
                 from_bytes(Slice(data, self.fixed_slices["msg_type"].start,
                                  self.fixed_slices["msg_type"].stop),
                            self.byteorder)
         IN << <<message_type, SliceFrom(data, data_start)>>, <<>> >>

\* MessageSerializer.unpack: <<message, remaining>>
unpack(self, data) ==
    IF Len(data) < self.fixed_slices["_total"].stop
    THEN <<None, data>>
    ELSE LET message_length ==
                 from_bytes(Slice(data, self.fixed_slices["msg_length"].start,
                                  self.fixed_slices["msg_length"].stop),
                            self.byteorder)
             data_start == self.fixed_slices["_total"].stop
             data_stop == data_start + message_length
         IN IF Len(data) < data_stop
            THEN <<None, data>>
            ELSE LET message_type ==
                         from_bytes(Slice(data, self.fixed_slices["msg_type"].start,
                                          self.fixed_slices["msg_type"].stop),
                                    self.byteorder)
                     message_data == Slice(data, data_start, data_stop)
                 IN << <<message_type, message_data>>, SliceFrom(data, data_stop) >>

(***************************************************************************)
(* State.                                                                  *)
(***************************************************************************)
VARIABLES
    serializer,   \* the MessageSerializer shared by every component
    frames,       \* codec: the (type, payload) pairs packed so far, in order
    stream,       \* codec: the concatenation of their packed bytes
    packError,    \* codec: whether the latest pack call raised OverflowError
    data,         \* codec: the argument of the latest unpack call
    message,      \* codec: the message the latest unpack call returned
    rest,         \* codec: the remaining bytes the latest unpack call returned
    got,          \* codec: the messages returned by the unpack calls so far
    phase,        \* codec: "pack", "prefix", "bytes" or "drain"
    protocol,     \* TCPClient.protocol: 0 for None, else the link of its protocol
    connecting,   \* the link connect() is suspended on in create_connection, or 0
    links,        \* how many links connect() has opened so far
    transport,    \* MessageProtocol.transport of each protocol: "None" or "transport"
    buffer,       \* TCPMessageProtocol.buffer of each protocol
    tstate,       \* each asyncio transport: "unborn", "open", "closing", "closed"
    tcause,       \* why it left "open": "none", "close", "eof" or "error"
    closeCalled,  \* whether transport.close() was called on it by the protocol
    wire,         \* the bytes in flight towards each protocol
    delivered,    \* the bytes handed to data_received of each protocol so far
    written,      \* the bytes each protocol handed to transport.write so far
    sent,         \* the (type, payload) pairs of each protocol's completed sends
    sends,        \* how many send calls have written a frame
    history,      \* the handler callbacks invoked with each protocol, in order
    lastCall,     \* the latest send call: its target and what it raised
    disconnectReturned, \* the links on which TCPClient.disconnect() has returned
    refused,      \* the links on which create_connection raised into connect()
    mode,         \* the variant of the Server: "tcp" (stream) or "udp" (datagram)
    running,      \* Server._running
    server,       \* Server._server: the object it refers to and its listener
    listeners,    \* the listening endpoints created so far: "listening" or "closed"
    startTask,    \* each start() call: "idle", "create_server", "done", "raised"
    stopTask,     \* each stop() call: "idle", "wait_closed", "done", "raised",
                  \* and the listener it closed
    serverLog,    \* on_start / on_stop, close and release of the listener, in order
    module,       \* the module whose registry and message base class are in use
    CLS_BY_TYPE,  \* its registry (CLS_BY_TYPE, cls_from_type): type code -> message class
    routes,       \* RoutingClient._routes: message class -> bound method
    built,        \* whether a RoutingClient has been constructed
    routed,       \* the handler calls made by RoutingClient.on_recv_message
    thrown,       \* the latest registry / routing call and the error it raised
    udpTransport, \* UDPMessageProtocol.transport of each endpoint: "None" or "transport"
    inflight,     \* the datagrams on their way to each endpoint
    udpReceived,  \* the datagrams handed to datagram_received of each endpoint
    udpCalls,     \* the handler callbacks invoked with each endpoint, in order
    udpLast,      \* the latest UDPMessageProtocol.send call and what it raised
    escaped       \* the exceptions that left a protocol callback, in order

codecVars == <<frames, stream, packError, data, message, rest, got, phase>>

clientVars == <<protocol, connecting, links, disconnectReturned, refused>>

transportVars == <<tstate, tcause, closeCalled, wire, delivered>>

protocolVars == <<transport, buffer, written, sent, sends, history, lastCall>>

connVars == <<clientVars, transportVars, protocolVars>>

serverVars == <<mode, running, server, listeners, startTask, stopTask, serverLog>>

routingVars == <<module, CLS_BY_TYPE, routes, built, routed, thrown>>

udpVars == <<udpTransport, inflight, udpReceived, udpCalls, udpLast>>

handlerVars == <<escaped>>

vars == <<serializer, codecVars, connVars, serverVars, routingVars, udpVars, handlerVars>>

CodecInit ==
    /\ frames = <<>>
    /\ stream = <<>>
    /\ packError = FALSE
    /\ data = <<>>
    /\ message = None
    /\ rest = <<>>
    /\ got = <<>>
    /\ phase = "pack"

\* a callback of the MessageHandler, with its arguments
Called(callback, type, payload) ==
    [callback |-> callback, type |-> type, data |-> payload]

\* a send call of the application: on which protocol, and what it raised
Call(via, self, raised) == [via |-> via, protocol |-> self, raised |-> raised]

\* TCPClient.__init__, and TCPMessageProtocol.__init__ of every protocol object
ConnInit ==
    /\ protocol = 0
    /\ connecting = 0
    /\ links = 0
    /\ disconnectReturned = {}
    /\ refused = {}
    /\ transport = [p \in Protocols |-> "None"]
    /\ buffer = [p \in Protocols |-> <<>>]
    /\ tstate = [p \in Protocols |-> "unborn"]
    /\ tcause = [p \in Protocols |-> "none"]
    /\ closeCalled = [p \in Protocols |-> FALSE]
    /\ wire = [p \in Protocols |-> <<>>]
    /\ delivered = [p \in Protocols |-> <<>>]
    /\ written = [p \in Protocols |-> <<>>]
    /\ sent = [p \in Protocols |-> <<>>]
    /\ sends = 0
    /\ history = [p \in Protocols |-> <<>>]
    /\ lastCall = Call("", <<"client", 0>>, "")

\* what Server._server refers to: None, the asyncio Server that create_server
\* returns, or the (transport, protocol) tuple create_datagram_endpoint returns
Ref(type, listener) == [type |-> type, listener |-> listener]

\* a step of the server's life: on_start, on_stop, the listening, close and
\* release of a listening endpoint
Event(event, listener) == [event |-> event, listener |-> listener]

\* a stop() call: where it is, and the listener it closed
Task(pc, listener) == [pc |-> pc, listener |-> listener]

\* Server.__init__
ServerInit ==
    /\ running = FALSE
    /\ server = Ref("NoneType", 0)
    /\ listeners = <<>>
    /\ startTask = [t \in 1..MaxStarts |-> "idle"]
    /\ stopTask = [t \in 1..MaxStops |-> Task("idle", 0)]
    /\ serverLog = <<>>

\* an outcome of a registry or routing call: the call, its argument (a type
\* code, or the number of a scene) and the error it raised
Outcome(op, arg, error) == [op |-> op, arg |-> arg, error |-> error]

\* a dict is a function that maps the keys it does not hold to "None"
EmptyDict(keys) == [k \in keys |-> "None"]

\* the module-level registry is empty and no RoutingClient exists
RoutingInit ==
    /\ module = "skeleton.net"
    /\ CLS_BY_TYPE = EmptyDict(TypeCodes)
    /\ routes = EmptyDict(MessageClasses)
    /\ built = FALSE
    /\ routed = <<>>
    /\ thrown = Outcome("", 0, "")

\* no callback has run, so no exception has left one
HandlerInit == escaped = <<>>

\* UDPMessageProtocol.__init__ of the two endpoints; nothing is in flight
UdpInit ==
    /\ udpTransport = [side \in Sides |-> "None"]
    /\ inflight = [side \in Sides |-> <<>>]
    /\ udpReceived = [side \in Sides |-> <<>>]
    /\ udpCalls = [side \in Sides |-> <<>>]
    /\ udpLast = Call("", <<"client", 0>>, "")

(***************************************************************************)
(* The codec applied to bounded inputs.                                    *)
(***************************************************************************)
\* serializer.pack(type, payload); a valid frame is appended to the stream
CodecPack(type, payload) ==
    /\ phase = "pack"
    /\ Len(frames) < MaxFrames
    /\ IF PackRaises(serializer, type, payload)
       THEN /\ packError' = TRUE
            /\ UNCHANGED <<frames, stream>>
       ELSE /\ packError' = FALSE
            /\ frames' = Append(frames, <<type, payload>>)
            /\ stream' = stream \o pack(serializer, type, payload)
    /\ UNCHANGED <<serverVars, routingVars, udpVars, handlerVars, serializer, data, message, rest, got, phase, connVars>>

\* serializer.unpack on the first k bytes of the stream
CodecUnpackPrefix(k) ==
    /\ phase = "pack"
    /\ frames # <<>>
    /\ LET result == unpack(serializer, SubSeq(stream, 1, k))
       IN /\ data' = SubSeq(stream, 1, k)
          /\ message' = result[1]
          /\ rest' = result[2]
    /\ phase' = "prefix"
    /\ UNCHANGED <<serverVars, routingVars, udpVars, handlerVars, serializer, frames, stream, packError, got, connVars>>

\* serializer.unpack on a byte string that no pack call produced
CodecUnpackBytes(bytes) ==
    /\ phase = "pack"
    /\ frames = <<>>
    /\ LET result == unpack(serializer, bytes)
       IN /\ data' = bytes
          /\ message' = result[1]
          /\ rest' = result[2]
    /\ phase' = "bytes"
    /\ UNCHANGED <<serverVars, routingVars, udpVars, handlerVars, serializer, frames, stream, packError, got, connVars>>

\* serializer.unpack on the whole stream
CodecUnpack ==
    /\ phase = "pack"
    /\ LET result == unpack(serializer, stream)
       IN /\ data' = stream
          /\ message' = result[1]
          /\ rest' = result[2]
          /\ got' = IF result[1] # None THEN <<result[1]>> ELSE <<>>
    /\ phase' = "drain"
    /\ UNCHANGED <<serverVars, routingVars, udpVars, handlerVars, serializer, frames, stream, packError, connVars>>

\* serializer.unpack on the remainder the previous call returned
CodecUnpackRest ==
    /\ phase = "drain"
    /\ message # None
    /\ LET result == unpack(serializer, rest)
       IN /\ data' = rest
          /\ message' = result[1]
          /\ rest' = result[2]
          /\ got' = IF result[1] # None THEN Append(got, result[1]) ELSE got
    /\ UNCHANGED <<serverVars, routingVars, udpVars, handlerVars, serializer, frames, stream, packError, phase, connVars>>

InitCodec ==
    /\ serializer \in {MessageSerializer(t, d, o) :
                           t \in TypeSizes, d \in DataSizes, o \in ByteOrders}
    /\ CodecInit
    /\ ConnInit
    /\ UdpInit
    /\ HandlerInit
    /\ mode = "tcp"
    /\ ServerInit
    /\ RoutingInit

NextCodec ==
    \/ \E type \in CodecTypes, payload \in CodecPayloads : CodecPack(type, payload)
    \/ \E k \in 0..Len(stream) : CodecUnpackPrefix(k)
    \/ \E bytes \in ByteStrings : CodecUnpackBytes(bytes)
    \/ CodecUnpack
    \/ CodecUnpackRest

SpecCodec == InitCodec /\ [][NextCodec]_vars

(***************************************************************************)
(* The asyncio transport of a protocol, as the protocol uses it.           *)
(***************************************************************************)
\* transport.close(): the first close of an open transport schedules
\* connection_lost; closing again changes nothing
transport_close(self) ==
    /\ tstate' = [tstate EXCEPT ![self] = IF @ = "open" THEN "closing" ELSE @]
    /\ tcause' = [tcause EXCEPT ![self] =
                      IF tstate[self] = "open" THEN "close" ELSE @]
    /\ closeCalled' = [closeCalled EXCEPT ![self] = TRUE]

\* transport.write(packed): an open transport carries the bytes to the peer,
\* a transport that is closing drops them
transport_write(self, packed) ==
    /\ written' = [written EXCEPT ![self] = @ \o packed]
    /\ wire' = IF tstate[self] = "open"
               THEN [wire EXCEPT ![Peer(self)] = @ \o packed]
               ELSE wire

(***************************************************************************)
(* MessageProtocol / TCPMessageProtocol                                    *)
(***************************************************************************)
\* disconnect that also reports the loss to the handler itself
disconnect_and_notify(self) ==
    IF transport[self] # "None"
    THEN /\ transport_close(self)
         /\ transport' = [transport EXCEPT ![self] = "None"]
         /\ history' = [history EXCEPT ![self] =
                            Append(@, [callback |-> "on_connection_lost",
                                       type |-> 0, data |-> <<>>])]
    ELSE UNCHANGED <<transport, tstate, tcause, closeCalled, history>>

\* disconnect that closes the transport but keeps the reference to it
disconnect_keeps_transport(self) ==
    IF transport[self] # "None"
    THEN /\ transport_close(self)
         /\ UNCHANGED <<transport, history>>
    ELSE UNCHANGED <<transport, tstate, tcause, closeCalled, history>>

\* MessageProtocol.disconnect
disconnect(self) ==
    IF transport[self] # "None"
    THEN /\ transport_close(self)
         /\ transport' = [transport EXCEPT ![self] = "None"]
         /\ UNCHANGED history
    ELSE UNCHANGED <<transport, tstate, tcause, closeCalled, history>>

\* send that lets the type and length fields wrap instead of failing
send_wraps_fields(self, type, payload) ==
    IF transport[self] = "None"
    THEN /\ lastCall' = [via |-> "protocol", protocol |-> self,
                         raised |-> "AssertionError"]
         /\ UNCHANGED <<written, wire, sent, sends>>
    ELSE /\ lastCall' = [via |-> "protocol", protocol |-> self, raised |-> ""]
         /\ transport_write(self,
                to_bytes(type % Pow(256, serializer.type_size_bytes),
                         serializer.type_size_bytes, serializer.byteorder)
                \o to_bytes(Len(payload) % Pow(256, serializer.data_size_bytes),
                            serializer.data_size_bytes, serializer.byteorder)
                \o payload)
         /\ sent' = [sent EXCEPT ![self] = Append(@, <<type, payload>>)]
         /\ sends' = sends + 1

\* TCPMessageProtocol.send
send(self, type, payload) ==
    IF transport[self] = "None"
    THEN /\ lastCall' = Call("protocol", self, "AssertionError")
         /\ UNCHANGED <<written, wire, sent, sends>>
    ELSE IF PackRaises(serializer, type, payload)
    THEN /\ lastCall' = Call("protocol", self, "OverflowError")
         /\ UNCHANGED <<written, wire, sent, sends>>
    ELSE /\ lastCall' = Call("protocol", self, "")
         /\ transport_write(self, pack(serializer, type, payload))
         /\ sent' = [sent EXCEPT ![self] = Append(@, <<type, payload>>)]
         /\ sends' = sends + 1

\* connection_made that stores the transport and does not tell the handler
connection_made_no_callback(self) ==
    /\ transport' = [transport EXCEPT ![self] = "transport"]
    /\ UNCHANGED history

\* TCPMessageProtocol.connection_made
connection_made(self) ==
    /\ transport' = [transport EXCEPT ![self] = "transport"]
    /\ history' = [history EXCEPT ![self] =
                       Append(@, Called("on_connection_made", 0, <<>>))]

\* the loop of data_received: <<callbacks made, remaining buffer>>
RECURSIVE unpack_loop(_, _)
unpack_loop(buf, calls) ==
    LET result == unpack(serializer, buf)
    IN IF result[1] = None
       THEN <<calls, result[2]>>
       ELSE unpack_loop(result[2],
                Append(calls, Called("on_recv_message", result[1][1], result[1][2])))

\* data_received that unpacks at most one message per call
data_received_single(self, chunk) ==
    LET result == unpack(serializer, buffer[self] \o chunk)
    IN /\ buffer' = [buffer EXCEPT ![self] = result[2]]
       /\ history' = [history EXCEPT ![self] =
              IF result[1] = None THEN @
              ELSE Append(@, [callback |-> "on_recv_message",
                              type |-> result[1][1], data |-> result[1][2]])]

\* data_received that forgets the bytes of an incomplete frame
data_received_drops_partial(self, chunk) ==
    LET done == unpack_loop(buffer[self] \o chunk, <<>>)
    IN /\ buffer' = [buffer EXCEPT ![self] = <<>>]
       /\ history' = [history EXCEPT ![self] = @ \o done[1]]

\* data_received over one buffer shared by all the protocols of a handler
data_received_shared_buffer(self, chunk) ==
    LET done == unpack_loop(buffer[self] \o chunk, <<>>)
    IN /\ buffer' = [p \in Protocols |->
                         IF p[1] = self[1] THEN done[2] ELSE buffer[p]]
       /\ history' = [history EXCEPT ![self] = @ \o done[1]]

\* data_received that leaves the last complete frame of a chunk in the buffer
\* until more bytes arrive
data_received_defers_last(self, chunk) ==
    LET done == unpack_loop(buffer[self] \o chunk, <<>>)
        calls == done[1]
        last == IF calls = <<>> THEN <<>>
                ELSE pack(serializer, calls[Len(calls)].type, calls[Len(calls)].data)
    IN /\ buffer' = [buffer EXCEPT ![self] = last \o done[2]]
       /\ history' = [history EXCEPT ![self] = @ \o SubSeq(calls, 1, Len(calls) - 1)]

\* TCPMessageProtocol.data_received
data_received(self, chunk) ==
    LET done == unpack_loop(buffer[self] \o chunk, <<>>)
    IN /\ buffer' = [buffer EXCEPT ![self] = done[2]]
       /\ history' = [history EXCEPT ![self] = @ \o done[1]]

\* connection_lost that keeps the reference to the closed transport
connection_lost_keeps_transport(self) ==
    /\ UNCHANGED transport
    /\ history' = [history EXCEPT ![self] =
                       Append(@, [callback |-> "on_connection_lost",
                                  type |-> 0, data |-> <<>>])]

\* connection_lost that hands the bytes of an incomplete frame to the handler
\* before it reports the loss
connection_lost_flushes_partial(self) ==
    /\ transport' = [transport EXCEPT ![self] = "None"]
    /\ history' = [history EXCEPT ![self] =
           IF buffer[self] = <<>>
           THEN Append(@, [callback |-> "on_connection_lost", type |-> 0, data |-> <<>>])
           ELSE @ \o << [callback |-> "on_recv_message", type |-> buffer[self][1],
                         data |-> Tail(buffer[self])],
                        [callback |-> "on_connection_lost", type |-> 0, data |-> <<>>] >>]

\* TCPMessageProtocol.connection_lost
connection_lost(self) ==
    /\ transport' = [transport EXCEPT ![self] = "None"]
    /\ history' = [history EXCEPT ![self] =
                       Append(@, Called("on_connection_lost", 0, <<>>))]

(***************************************************************************)
(* TCPClient                                                               *)
(***************************************************************************)
\* TCPClient.connected
connected == protocol # 0 /\ transport[<<"client", protocol>>] # "None"

\* connect that hands the protocol object it already holds to the new
\* connection instead of making one
connect_reuses_protocol(limit) ==
    /\ connecting = 0
    /\ links < limit
    /\ IF protocol # 0
       THEN /\ connecting' = protocol
            /\ UNCHANGED links
       ELSE /\ links' = links + 1
            /\ connecting' = links + 1
    /\ UNCHANGED <<serverVars, routingVars, udpVars, handlerVars, serializer, codecVars, protocol,
                   disconnectReturned, refused, transportVars, protocolVars>>

\* TCPClient.connect up to its await: create_connection opens a new link;
\* a run opens at most limit links
connect(limit) ==
    /\ connecting = 0
    /\ links < limit
    /\ links' = links + 1
    /\ connecting' = links + 1
    /\ UNCHANGED <<serverVars, routingVars, udpVars, handlerVars, serializer, codecVars, protocol,
                   disconnectReturned, refused, transportVars, protocolVars>>

ClientConnect == connect(MaxLinks)

\* TCPClient.connect after its await: the protocol of the new link is stored
ConnectResume ==
    /\ connecting # 0
    /\ tstate[<<"client", connecting>>] # "unborn"
    /\ protocol' = connecting
    /\ connecting' = 0
    /\ UNCHANGED <<serverVars, routingVars, udpVars, handlerVars, serializer, codecVars, links,
                   disconnectReturned, refused, transportVars, protocolVars>>

\* a failed connect that stores the protocol of the failed attempt all the same
ConnectFailed_stores_protocol ==
    /\ connecting # 0
    /\ tstate[<<"client", connecting>>] = "unborn"
    /\ refused' = refused \cup {connecting}
    /\ protocol' = connecting
    /\ connecting' = 0
    /\ UNCHANGED <<serverVars, routingVars, udpVars, handlerVars, serializer, codecVars, links,
                   disconnectReturned, transportVars, protocolVars>>

\* TCPClient.connect when create_connection raises: the exception leaves
\* connect() before the assignment to self.protocol, and no protocol was made
ConnectFailed ==
    /\ connecting # 0
    /\ tstate[<<"client", connecting>>] = "unborn"
    /\ refused' = refused \cup {connecting}
    /\ connecting' = 0
    /\ UNCHANGED <<serverVars, routingVars, udpVars, handlerVars, serializer, codecVars, protocol, links,
                   disconnectReturned, transportVars, protocolVars>>

\* TCPClient.disconnect: it runs to its end without suspending
ClientDisconnect ==
    /\ IF protocol # 0
       THEN /\ disconnect(<<"client", protocol>>)
            /\ disconnectReturned' = disconnectReturned \cup {protocol}
       ELSE UNCHANGED <<transport, tstate, tcause, closeCalled, history,
                        disconnectReturned>>
    /\ protocol' = 0
    /\ UNCHANGED <<serverVars, routingVars, udpVars, handlerVars, serializer, codecVars, connecting, links,
                   refused, wire, delivered,
                   buffer, written, sent, sends, lastCall>>

\* TCPClient.send
ClientSend(type, payload) ==
    /\ sends < MaxSends
    /\ IF connected
       THEN send(<<"client", protocol>>, type, payload)
       ELSE /\ lastCall' = Call("client", <<"client", protocol>>, "AssertionError")
            /\ UNCHANGED <<written, wire, sent, sends>>
    /\ UNCHANGED <<serverVars, routingVars, udpVars, handlerVars, serializer, codecVars, clientVars, tstate, tcause, closeCalled,
                   delivered, transport, buffer, history>>

(***************************************************************************)
(* Calls of the application on a protocol object.                          *)
(***************************************************************************)
\* protocol.send(type, payload)
Send(self, type, payload) ==
    /\ sends < MaxSends
    /\ send(self, type, payload)
    /\ UNCHANGED <<serverVars, routingVars, udpVars, handlerVars, serializer, codecVars, clientVars, tstate, tcause, closeCalled,
                   delivered, transport, buffer, history>>

\* protocol.disconnect()
ProtocolDisconnect(self) ==
    /\ disconnect(self)
    /\ UNCHANGED <<serverVars, routingVars, udpVars, handlerVars, serializer, codecVars, clientVars, wire, delivered,
                   buffer, written, sent, sends, lastCall>>

(***************************************************************************)
(* Events of the event loop on a protocol's transport.                     *)
(***************************************************************************)
\* the transport is connected: the client end of the link connect() awaits,
\* or the end the server accepted for a link that was opened
ConnectionMade(self) ==
    /\ tstate[self] = "unborn"
    /\ IF self[1] = "client" THEN connecting = self[2] ELSE self[2] <= links
    /\ tstate' = [tstate EXCEPT ![self] = "open"]
    /\ connection_made(self)
    /\ UNCHANGED <<serverVars, routingVars, udpVars, handlerVars, serializer, codecVars, clientVars, tcause, closeCalled, wire,
                   delivered, buffer, written, sent, sends, lastCall>>

\* the first k bytes in flight arrive in one read
DataReceived(self, k) ==
    /\ tstate[self] = "open"
    /\ k <= Len(wire[self])
    /\ wire' = [wire EXCEPT ![self] = SubSeq(@, k + 1, Len(@))]
    /\ delivered' = [delivered EXCEPT ![self] = @ \o SubSeq(wire[self], 1, k)]
    /\ data_received(self, SubSeq(wire[self], 1, k))
    /\ UNCHANGED <<serverVars, routingVars, udpVars, handlerVars, serializer, codecVars, clientVars, tstate, tcause, closeCalled,
                   transport, written, sent, sends, lastCall>>

\* the peer has closed and everything it wrote has arrived: end of stream
EofReceived(self) ==
    /\ tstate[self] = "open"
    /\ tstate[Peer(self)] \in {"closing", "closed"}
    /\ wire[self] = <<>>
    /\ tstate' = [tstate EXCEPT ![self] = "closing"]
    /\ tcause' = [tcause EXCEPT ![self] = "eof"]
    /\ UNCHANGED <<serverVars, routingVars, udpVars, handlerVars, serializer, codecVars, clientVars, closeCalled, wire, delivered,
                   protocolVars>>

\* an I/O error on the socket
ConnectionError(self) ==
    /\ tstate[self] = "open"
    /\ tstate' = [tstate EXCEPT ![self] = "closing"]
    /\ tcause' = [tcause EXCEPT ![self] = "error"]
    /\ UNCHANGED <<serverVars, routingVars, udpVars, handlerVars, serializer, codecVars, clientVars, closeCalled, wire, delivered,
                   protocolVars>>

\* the closing transport calls protocol.connection_lost, once
ConnectionLost(self) ==
    /\ tstate[self] = "closing"
    /\ tstate' = [tstate EXCEPT ![self] = "closed"]
    /\ connection_lost(self)
    /\ UNCHANGED <<serverVars, routingVars, udpVars, handlerVars, serializer, codecVars, clientVars, tcause, closeCalled, wire,
                   delivered, buffer, written, sent, sends, lastCall>>

(***************************************************************************)
(* Handlers that call back into the client or the protocol from inside a   *)
(* callback of the protocol.                                               *)
(***************************************************************************)
\* an exception that left a callback of a protocol and reached the event loop
Raised(callback, self, error) ==
    [callback |-> callback, protocol |-> self, error |-> error]

\* what a send raises: the assert on the transport, then pack
SendError(attached, type, payload) ==
    IF ~attached THEN "AssertionError"
    ELSE IF PackRaises(serializer, type, payload) THEN "OverflowError"
    ELSE ""

\* a send made inside a callback: via the client or the protocol, on the
\* protocol object target, whose transport is set (attached) and open (carried)
\* at that point of the callback
callback_send(via, target, type, payload, attached, carried) ==
    LET error == SendError(attached, type, payload)
        packed == pack(serializer, type, payload)
    IN /\ lastCall' = Call(via, target, error)
       /\ IF error # ""
          THEN UNCHANGED <<written, wire, sent, sends>>
          ELSE /\ written' = [written EXCEPT ![target] = @ \o packed]
               /\ wire' = IF carried
                          THEN [wire EXCEPT ![Peer(target)] = @ \o packed]
                          ELSE wire
               /\ sent' = [sent EXCEPT ![target] = Append(@, <<type, payload>>)]
               /\ sends' = sends + 1

\* connection_made of a client's protocol whose handler calls Client.send
\* from on_connection_made as if connect() had already stored the protocol
ConnectionMadeSending_stored(self, via, type, payload) ==
    /\ sends < MaxSends
    /\ self[1] = "client"
    /\ tstate[self] = "unborn"
    /\ connecting = self[2]
    /\ tstate' = [tstate EXCEPT ![self] = "open"]
    /\ connection_made(self)
    /\ callback_send(via, self, type, payload, TRUE, TRUE)
    /\ UNCHANGED escaped
    /\ UNCHANGED <<serverVars, routingVars, udpVars, serializer, codecVars, clientVars,
                   tcause, closeCalled, delivered, buffer>>

\* connection_made of the protocol connect() is waiting for, with a handler
\* whose on_connection_made sends a frame: via "client" it calls
\* Client.send (assert self.connected, then self.protocol.send), via
\* "protocol" it calls send on the protocol it was handed.  The transport was
\* stored before the callback; an exception leaves connection_made
ConnectionMadeSending(self, via, type, payload) ==
    /\ sends < MaxSends
    /\ self[1] = "client"
    /\ tstate[self] = "unborn"
    /\ connecting = self[2]
    /\ tstate' = [tstate EXCEPT ![self] = "open"]
    /\ connection_made(self)
    /\ LET target == IF via = "client" THEN <<"client", protocol>> ELSE self
           attached == IF via = "client" THEN connected ELSE TRUE
           carried == IF via = "client" THEN tstate[target] = "open" ELSE TRUE
       IN /\ callback_send(via, target, type, payload, attached, carried)
          /\ escaped' = IF SendError(attached, type, payload) # ""
                        THEN Append(escaped,
                                 Raised("connection_made", self,
                                        SendError(attached, type, payload)))
                        ELSE escaped
    /\ UNCHANGED <<serverVars, routingVars, udpVars, serializer, codecVars, clientVars,
                   tcause, closeCalled, delivered, buffer>>

\* what the handler's on_recv_message does with a message: return, call
\* protocol.disconnect(), call protocol.send(reply), or raise (the KeyError
\* of a routing client that meets an unregistered type code)
Reactions == {"return", "disconnect", "send", "raise"}

\* the frame a handler sends back from on_recv_message
ReplyFrame == <<2, <<>>>>

\* the receive loop at the start of a data_received call: the bytes to unpack,
\* whether protocol.transport is set, and nothing done yet
Entered(self, chunk) ==
    [buffer |-> buffer[self] \o chunk, attached |-> transport[self] # "None",
     calls |-> <<>>, closed |-> FALSE, replies |-> 0, error |-> ""]

\* a receive loop that ends once the handler has disconnected the protocol
RECURSIVE handled_loop_stops_when_disconnected(_, _)
handled_loop_stops_when_disconnected(st, react) ==
    LET result == unpack(serializer, st.buffer)
    IN IF result[1] = None \/ ~st.attached
       THEN st
       ELSE LET called == [st EXCEPT !.buffer = result[2],
                                     !.calls = Append(@, [callback |-> "on_recv_message",
                                                          type |-> result[1][1],
                                                          data |-> result[1][2]])]
                reaction == react[result[1][1]]
            IN CASE reaction = "return" ->
                        handled_loop_stops_when_disconnected(called, react)
                 [] reaction = "disconnect" ->
                        handled_loop_stops_when_disconnected(
                            [called EXCEPT !.attached = FALSE, !.closed = TRUE], react)
                 [] reaction = "send" ->
                        handled_loop_stops_when_disconnected(
                            [called EXCEPT !.replies = @ + 1], react)
                 [] reaction = "raise" -> [called EXCEPT !.error = "KeyError"]

\* a receive loop that puts the frame back when its handler raises
RECURSIVE handled_loop_requeues(_, _)
handled_loop_requeues(st, react) ==
    LET result == unpack(serializer, st.buffer)
    IN IF result[1] = None
       THEN [st EXCEPT !.buffer = result[2]]
       ELSE LET called == [st EXCEPT !.buffer = result[2],
                                     !.calls = Append(@, [callback |-> "on_recv_message",
                                                          type |-> result[1][1],
                                                          data |-> result[1][2]])]
                reaction == react[result[1][1]]
            IN CASE reaction = "return" -> handled_loop_requeues(called, react)
                 [] reaction = "disconnect" ->
                        handled_loop_requeues(
                            [called EXCEPT !.attached = FALSE,
                                           !.closed = @ \/ called.attached], react)
                 [] reaction = "send" ->
                        IF called.attached
                        THEN handled_loop_requeues([called EXCEPT !.replies = @ + 1], react)
                        ELSE [called EXCEPT !.error = "AssertionError",
                                            !.buffer = st.buffer]
                 [] reaction = "raise" ->
                        [called EXCEPT !.error = "KeyError", !.buffer = st.buffer]

\* the loop of data_received with a handler that acts on each message: each
\* unpack stores the rest in self.buffer before on_recv_message is called; a
\* disconnect clears protocol.transport and the loop goes on; a send on the
\* cleared transport, or a raise, leaves the loop with the exception
RECURSIVE handled_loop(_, _)
handled_loop(st, react) ==
    LET result == unpack(serializer, st.buffer)
    IN IF result[1] = None
       THEN [st EXCEPT !.buffer = result[2]]
       ELSE LET called == [st EXCEPT !.buffer = result[2],
                                     !.calls = Append(@, Called("on_recv_message",
                                                   result[1][1], result[1][2]))]
                reaction == react[result[1][1]]
            IN CASE reaction = "return" -> handled_loop(called, react)
                 [] reaction = "disconnect" ->
                        handled_loop([called EXCEPT !.attached = FALSE,
                                                    !.closed = @ \/ called.attached],
                                     react)
                 [] reaction = "send" ->
                        IF called.attached
                        THEN handled_loop([called EXCEPT !.replies = @ + 1], react)
                        ELSE [called EXCEPT !.error = "AssertionError"]
                 [] reaction = "raise" -> [called EXCEPT !.error = "KeyError"]

\* n replies, packed
RECURSIVE Replies(_)
Replies(n) ==
    IF n = 0 THEN <<>>
    ELSE Replies(n - 1) \o pack(serializer, ReplyFrame[1], ReplyFrame[2])

\* the transport calls protocol.data_received with the next k bytes, and the
\* handler reacts to each message by its type.  Replies are written while the
\* transport is still set and open.  An exception leaves data_received: the
\* event loop either only logs it (the selector loop of Python 3.6) or treats
\* it as fatal and force-closes the transport (Python 3.7 and later, uvloop)
DataReceivedHandled(self, k, react, fatal) ==
    /\ tstate[self] = "open"
    /\ k <= Len(wire[self])
    /\ LET done == handled_loop(Entered(self, SubSeq(wire[self], 1, k)), react)
           packed == Replies(done.replies)
       IN /\ sends + done.replies <= MaxSends
          /\ Len(escaped) < MaxRaises
          /\ fatal => done.error # ""
          /\ delivered' = [delivered EXCEPT ![self] = @ \o SubSeq(wire[self], 1, k)]
          /\ buffer' = [buffer EXCEPT ![self] = done.buffer]
          /\ history' = [history EXCEPT ![self] = @ \o done.calls]
          /\ transport' = [transport EXCEPT ![self] =
                               IF done.attached THEN @ ELSE "None"]
          /\ tstate' = [tstate EXCEPT ![self] =
                            IF done.closed \/ fatal THEN "closing" ELSE @]
          /\ tcause' = [tcause EXCEPT ![self] =
                            IF done.closed THEN "close"
                            ELSE IF fatal THEN "error" ELSE @]
          /\ closeCalled' = [closeCalled EXCEPT ![self] = @ \/ done.closed]
          /\ written' = [written EXCEPT ![self] = @ \o packed]
          /\ wire' = [wire EXCEPT ![self] = SubSeq(@, k + 1, Len(@)),
                                  ![Peer(self)] = @ \o packed]
          /\ sent' = [sent EXCEPT ![self] =
                          @ \o [i \in 1..done.replies |-> ReplyFrame]]
          /\ sends' = sends + done.replies
          /\ lastCall' = IF done.error = "AssertionError"
                         THEN Call("protocol", self, "AssertionError")
                         ELSE IF done.replies > 0 THEN Call("protocol", self, "")
                         ELSE lastCall
          /\ escaped' = IF done.error # ""
                        THEN Append(escaped, Raised("data_received", self, done.error))
                        ELSE escaped
    /\ UNCHANGED <<serverVars, routingVars, udpVars, serializer, codecVars, clientVars>>

Init ==
    /\ serializer = MessageSerializer(TYPE_SIZE_BYTES, TCP_MESSAGE_DATA_SIZE_BYTES, "big")
    /\ CodecInit
    /\ ConnInit
    /\ UdpInit
    /\ HandlerInit
    /\ mode = "tcp"
    /\ ServerInit
    /\ RoutingInit

Next ==
    \/ ClientConnect
    \/ ConnectResume
    \/ ClientDisconnect
    \/ \E frame \in SendFrames : ClientSend(frame[1], frame[2])
    \/ \E self \in Opened(MaxLinks), frame \in SendFrames : Send(self, frame[1], frame[2])
    \/ \E self \in Opened(MaxLinks) : ProtocolDisconnect(self)
    \/ \E self \in Opened(MaxLinks) : ConnectionMade(self)
    \/ \E self \in Opened(MaxLinks) : \E k \in 1..Len(wire[self]) : DataReceived(self, k)
    \/ \E self \in Opened(MaxLinks) : EofReceived(self)
    \/ \E self \in Opened(MaxLinks) : ConnectionError(self)
    \/ \E self \in Opened(MaxLinks) : ConnectionLost(self)

Spec == Init /\ [][Next]_vars

(***************************************************************************)
(* One TCPClient over its lifetime: it may connect again, with or without  *)
(* a disconnect in between, and create_connection may fail.  Only the      *)
(* client's ends of the links are followed.                                *)
(***************************************************************************)
ClientEnds == {"client"} \X Links

\* connect() called on a client that may have connected before
ClientReconnect == connect(MaxReconnects)

NextClient ==
    \/ ClientReconnect
    \/ ConnectResume
    \/ ConnectFailed
    \/ ClientDisconnect
    \/ \E frame \in SendFrames : ClientSend(frame[1], frame[2])
    \/ \E self \in ClientEnds : ConnectionMade(self)
    \/ \E self \in ClientEnds : ConnectionError(self)
    \/ \E self \in ClientEnds : ConnectionLost(self)

SpecClient == Init /\ [][NextClient]_vars

(***************************************************************************)
(* Server (stream variant in rapid/net/tcp.py, datagram variant in         *)
(* rapid/networking/udp.py): start and stop are coroutines that suspend in *)
(* create_server / create_datagram_endpoint and in wait_closed.            *)
(***************************************************************************)
StartTasks == 1..MaxStarts

StopTasks == 1..MaxStops

\* Server.start up to its await; the calls are numbered in the order they
\* are made
ServerStart(t) ==
    /\ startTask[t] = "idle"
    /\ \A earlier \in 1..(t - 1) : startTask[earlier] # "idle"
    /\ IF ~running
       THEN /\ startTask' = [startTask EXCEPT ![t] = "create_server"]
            /\ UNCHANGED running
       ELSE /\ startTask' = [startTask EXCEPT ![t] = "done"]
            /\ running' = TRUE
    /\ UNCHANGED <<mode, server, listeners, stopTask, serverLog,
                   routingVars, udpVars, handlerVars, serializer, codecVars, connVars>>

\* a failed start that marks the server running all the same
StartFailed_marks_running(t) ==
    /\ startTask[t] = "create_server"
    /\ startTask' = [startTask EXCEPT ![t] = "raised"]
    /\ running' = TRUE
    /\ UNCHANGED <<mode, server, listeners, stopTask, serverLog,
                   routingVars, udpVars, handlerVars, serializer, codecVars, connVars>>

\* Server.start when create_server / create_datagram_endpoint raises (the
\* bind or listen failed): the exception leaves start() at the await
StartFailed(t) ==
    /\ startTask[t] = "create_server"
    /\ startTask' = [startTask EXCEPT ![t] = "raised"]
    /\ UNCHANGED <<mode, running, server, listeners, stopTask, serverLog,
                   routingVars, udpVars, handlerVars, serializer, codecVars, connVars>>

\* Server.start after its await: the endpoint listens, its reference is
\* stored, on_start is invoked and the server is marked running
StartResume(t) ==
    /\ startTask[t] = "create_server"
    /\ LET new == Len(listeners) + 1
       IN /\ listeners' = Append(listeners, "listening")
          /\ server' = Ref(IF mode = "tcp" THEN "Server" ELSE "tuple", new)
          /\ serverLog' = serverLog \o <<Event("listening", new), Event("on_start", new)>>
    /\ running' = TRUE
    /\ startTask' = [startTask EXCEPT ![t] = "done"]
    /\ UNCHANGED <<mode, stopTask, routingVars, udpVars, handlerVars, serializer, codecVars, connVars>>

\* a stop that also closes the transports of the connections it accepted
ServerStop_closes_connections(t) ==
    /\ stopTask[t].pc = "idle"
    /\ running
    /\ server.type = "Server"
    /\ serverLog' = serverLog \o <<Event("on_stop", server.listener),
                                   Event("close", server.listener)>>
    /\ listeners' = [listeners EXCEPT ![server.listener] = "closed"]
    /\ stopTask' = [stopTask EXCEPT ![t] = [pc |-> "wait_closed",
                                            listener |-> server.listener]]
    /\ tstate' = [p \in Protocols |->
                     IF p[1] = "server" /\ tstate[p] = "open"
                     THEN "closing" ELSE tstate[p]]
    /\ tcause' = [p \in Protocols |->
                     IF p[1] = "server" /\ tstate[p] = "open"
                     THEN "close" ELSE tcause[p]]
    /\ UNCHANGED <<mode, running, server, startTask, routingVars, udpVars, handlerVars, serializer,
                   codecVars, clientVars, closeCalled, wire, delivered,
                   protocolVars>>

\* Server.stop up to its await: on_stop, then self._server.close(); a tuple
\* has no close method, so the call raises AttributeError
ServerStop(t) ==
    /\ stopTask[t].pc = "idle"
    /\ \A earlier \in 1..(t - 1) : stopTask[earlier].pc # "idle"
    /\ IF running
       THEN IF server.type = "Server"
            THEN /\ serverLog' = serverLog \o <<Event("on_stop", server.listener),
                                                Event("close", server.listener)>>
                 /\ listeners' = [listeners EXCEPT ![server.listener] = "closed"]
                 /\ stopTask' = [stopTask EXCEPT ![t] = Task("wait_closed", server.listener)]
                 /\ UNCHANGED running
            ELSE /\ serverLog' = Append(serverLog, Event("on_stop", server.listener))
                 /\ stopTask' = [stopTask EXCEPT ![t] = Task("raised", server.listener)]
                 /\ UNCHANGED <<running, listeners>>
       ELSE /\ running' = FALSE
            /\ stopTask' = [stopTask EXCEPT ![t] = Task("done", 0)]
            /\ UNCHANGED <<listeners, serverLog>>
    /\ UNCHANGED <<mode, server, startTask, routingVars, udpVars, handlerVars, serializer, codecVars, connVars>>

\* a stop whose wait returns with the server still marked running
StopResume_stays_running(t) ==
    /\ stopTask[t].pc = "wait_closed"
    /\ serverLog' = Append(serverLog, [event |-> "released",
                                       listener |-> stopTask[t].listener])
    /\ stopTask' = [stopTask EXCEPT ![t] = [pc |-> "done",
                                            listener |-> stopTask[t].listener]]
    /\ UNCHANGED <<mode, running, server, listeners, startTask,
                   routingVars, udpVars, handlerVars, serializer, codecVars, connVars>>

\* Server.stop after its await: wait_closed has returned
StopResume(t) ==
    /\ stopTask[t].pc = "wait_closed"
    /\ serverLog' = Append(serverLog, Event("released", stopTask[t].listener))
    /\ running' = FALSE
    /\ stopTask' = [stopTask EXCEPT ![t] = Task("done", stopTask[t].listener)]
    /\ UNCHANGED <<mode, server, listeners, startTask,
                   routingVars, udpVars, handlerVars, serializer, codecVars, connVars>>

\* the protocols the server's factory makes for the connections it accepts
Accepted == {"server"} \X (1..MaxLinks)

\* some endpoint of the server is listening
Listening == \E i \in 1..Len(listeners) : listeners[i] = "listening"

\* the listening socket completes the handshake of a connecting client
Handshake(self) ==
    /\ mode = "tcp"
    /\ Listening
    /\ self[1] = "client"
    /\ ConnectionMade(self)

\* the listening socket accepts a connection: protocol_factory makes its
\* TCPMessageProtocol, with the server as handler, and connection_made runs
Accept(self) ==
    /\ mode = "tcp"
    /\ Listening
    /\ self[1] = "server"
    /\ tstate[Peer(self)] # "unborn"
    /\ ConnectionMade(self)

InitServer ==
    /\ serializer = MessageSerializer(TYPE_SIZE_BYTES, TCP_MESSAGE_DATA_SIZE_BYTES, "big")
    /\ CodecInit
    /\ ConnInit
    /\ UdpInit
    /\ HandlerInit
    /\ mode \in {"tcp", "udp"}
    /\ ServerInit
    /\ RoutingInit

\* the start and stop calls on one Server, in any interleaving
NextLifecycle ==
    \/ \E t \in StartTasks : ServerStart(t)
    \/ \E t \in StartTasks : StartResume(t)
    \/ \E t \in StartTasks : StartFailed(t)
    \/ \E t \in StopTasks : ServerStop(t)
    \/ \E t \in StopTasks : StopResume(t)

SpecLifecycle == InitServer /\ [][NextLifecycle]_vars

\* the Server together with the connections it accepts from one client
NextServer ==
    \/ NextLifecycle
    \/ ClientConnect
    \/ ConnectResume
    \/ ClientDisconnect
    \/ \E frame \in SendFrames : ClientSend(frame[1], frame[2])
    \/ \E self \in Opened(MaxLinks) : Handshake(self)
    \/ \E self \in Accepted : Accept(self)
    \/ \E self \in Accepted, frame \in SendFrames : Send(self, frame[1], frame[2])
    \/ \E self \in Accepted : \E k \in 1..Len(wire[self]) : DataReceived(self, k)
    \/ \E self \in Accepted : ProtocolDisconnect(self)
    \/ \E self \in Accepted : EofReceived(self)
    \/ \E self \in Accepted : ConnectionLost(self)

SpecServer == InitServer /\ [][NextServer]_vars

(***************************************************************************)
(* A stream Server that one caller starts and stops in turn, awaiting each *)
(* call before the next, while a client connects to it and sends.          *)
(***************************************************************************)
\* no start() or stop() call is suspended in its await
Quiet ==
    /\ \A t \in StartTasks : startTask[t] # "create_server"
    /\ \A t \in StopTasks : stopTask[t].pc # "wait_closed"

\* the start() and stop() calls made so far
StartsMade == Cardinality({t \in StartTasks : startTask[t] # "idle"})

StopsMade == Cardinality({t \in StopTasks : stopTask[t].pc # "idle"})

\* await server.start(...), made after the stop before it has returned
AwaitStart(t) ==
    /\ Quiet
    /\ StartsMade = StopsMade
    /\ ServerStart(t)

\* await server.stop(), made after the start before it has returned
AwaitStop(t) ==
    /\ Quiet
    /\ StartsMade = StopsMade + 1
    /\ ServerStop(t)

InitRestart ==
    /\ serializer = MessageSerializer(TYPE_SIZE_BYTES, TCP_MESSAGE_DATA_SIZE_BYTES, "big")
    /\ CodecInit
    /\ ConnInit
    /\ UdpInit
    /\ HandlerInit
    /\ mode = "tcp"
    /\ ServerInit
    /\ RoutingInit

NextRestart ==
    \/ \E t \in StartTasks : AwaitStart(t)
    \/ \E t \in StartTasks : StartResume(t)
    \/ \E t \in StartTasks : StartFailed(t)
    \/ \E t \in StopTasks : AwaitStop(t)
    \/ \E t \in StopTasks : StopResume(t)
    \/ ClientConnect
    \/ ConnectResume
    \/ \E self \in Opened(MaxLinks) : Handshake(self)
    \/ \E self \in Accepted : Accept(self)
    \/ \E frame \in SendFrames : ClientSend(frame[1], frame[2])
    \/ \E self \in Accepted : \E k \in 1..Len(wire[self]) : DataReceived(self, k)

SpecRestart == InitRestart /\ [][NextRestart]_vars

(***************************************************************************)
(* Several connections accepted by one Server at the same time: every      *)
(* accepted transport has its own TCPMessageProtocol.  The peers write     *)
(* frames, which arrive at the server's ends in chunks, in any order.      *)
(***************************************************************************)
ServerEnds == {"server"} \X Links

NextIsolation ==
    \/ ClientReconnect
    \/ ConnectResume
    \/ \E self \in Protocols : ConnectionMade(self)
    \/ \E self \in ClientEnds, frame \in SendFrames : Send(self, frame[1], frame[2])
    \/ \E self \in ServerEnds : \E k \in 1..Len(wire[self]) : DataReceived(self, k)
    \/ \E self \in ServerEnds : ConnectionError(self)
    \/ \E self \in ServerEnds : ConnectionLost(self)

SpecIsolation == Init /\ [][NextIsolation]_vars

(***************************************************************************)
(* One TCPClient that connects again after its connection has received     *)
(* frames from the peer: the peers' ends are made and write, the client's  *)
(* ends read, are disconnected and are lost.                               *)
(***************************************************************************)
NextReconnect ==
    \/ ClientReconnect
    \/ ConnectResume
    \/ ConnectFailed
    \/ ClientDisconnect
    \/ \E self \in Protocols : ConnectionMade(self)
    \/ \E self \in ServerEnds, frame \in SendFrames : Send(self, frame[1], frame[2])
    \/ \E self \in ClientEnds : \E k \in 1..Len(wire[self]) : DataReceived(self, k)
    \/ \E self \in ClientEnds : ProtocolDisconnect(self)
    \/ \E self \in ClientEnds : ConnectionError(self)
    \/ \E self \in ClientEnds : ConnectionLost(self)

SpecReconnect == Init /\ [][NextReconnect]_vars

(***************************************************************************)
(* One connection on which the client sends frames at the edges of the     *)
(* type and length fields, with the default serializer (2-byte length) or  *)
(* one with a 1-byte length; the server end receives what was written.     *)
(***************************************************************************)
\* a payload of n zero bytes
Zeros(n) == [i \in 1..n |-> 0]

\* the (type, payload) pairs handed to send
EdgeFrames ==
    {<<-1, <<>>>>, <<255, <<>>>>, <<256, <<>>>>,
     <<0, Zeros(255)>>, <<0, Zeros(256)>>, <<0, Zeros(65535)>>, <<0, Zeros(65536)>>}

InitOverflow ==
    /\ serializer \in {MessageSerializer(TYPE_SIZE_BYTES, TCP_MESSAGE_DATA_SIZE_BYTES, "big"),
                       MessageSerializer(TYPE_SIZE_BYTES, 1, "big")}
    /\ CodecInit
    /\ ConnInit
    /\ UdpInit
    /\ HandlerInit
    /\ mode = "tcp"
    /\ ServerInit
    /\ RoutingInit

\* the transport hands over everything that has arrived in one call
DataReceivedAll(self) ==
    /\ wire[self] # <<>>
    /\ DataReceived(self, Len(wire[self]))

NextOverflow ==
    \/ ClientConnect
    \/ ConnectResume
    \/ ClientDisconnect
    \/ \E self \in Opened(MaxLinks) : ConnectionMade(self)
    \/ \E frame \in EdgeFrames : ClientSend(frame[1], frame[2])
    \/ DataReceivedAll(<<"server", 1>>)
    \/ ConnectionLost(<<"client", 1>>)

SpecOverflow == InitOverflow /\ [][NextOverflow]_vars

(***************************************************************************)
(* One connection whose client end has a handler that disconnects, replies *)
(* or raises from on_recv_message; the server end sends the frames.        *)
(***************************************************************************)
\* the type codes of the frames that arrive
FrameTypes == {frame[1] : frame \in SendFrames}

NextHandlers ==
    \/ ClientConnect
    \/ ConnectResume
    \/ \E self \in Opened(MaxLinks) : ConnectionMade(self)
    \/ \E frame \in SendFrames : Send(<<"server", 1>>, frame[1], frame[2])
    \/ \E k \in 1..Len(wire[<<"client", 1>>]), react \in [FrameTypes -> Reactions],
          fatal \in BOOLEAN :
           DataReceivedHandled(<<"client", 1>>, k, react, fatal)
    \/ ConnectionLost(<<"client", 1>>)

SpecHandlers == Init /\ [][NextHandlers]_vars

(***************************************************************************)
(* The same client with a handler that sends from on_connection_made.      *)
(***************************************************************************)
\* how a handler reaches send: through the client or through the protocol
Vias == {"client", "protocol"}

NextCallbacks ==
    \/ ClientReconnect
    \/ ConnectResume
    \/ ClientDisconnect
    \/ \E frame \in SendFrames : ClientSend(frame[1], frame[2])
    \/ \E self \in Protocols : ConnectionMade(self)
    \/ \E self \in ClientEnds, via \in Vias, frame \in SendFrames :
           ConnectionMadeSending(self, via, frame[1], frame[2])
    \/ \E self \in ServerEnds, frame \in SendFrames : Send(self, frame[1], frame[2])
    \/ \E self \in ClientEnds : \E k \in 1..Len(wire[self]) : DataReceived(self, k)
    \/ \E self \in ClientEnds : ConnectionError(self)
    \/ \E self \in ClientEnds : ConnectionLost(self)

SpecCallbacks == Init /\ [][NextCallbacks]_vars

(***************************************************************************)
(* The registry of message classes (skeleton.net) and the route table of   *)
(* RoutingClient.                                                          *)
(***************************************************************************)
MAX_MESSAGE_TYPES == Pow(256, TYPE_SIZE_BYTES)

\* a declaration that replaces the class registered for its type code
init_subclass_overwrites(cls, type) ==
    IF /\ type.int
       /\ 0 <= type.value /\ type.value < MAX_MESSAGE_TYPES
    THEN /\ CLS_BY_TYPE' = [CLS_BY_TYPE EXCEPT ![type.value] = cls]
         /\ thrown' = [op |-> "declare", arg |-> type.value, error |-> ""]
    ELSE /\ UNCHANGED CLS_BY_TYPE
         /\ thrown' = [op |-> "declare", arg |-> type.value, error |-> "AssertionError"]

\* a declaration that registers the class before it checks the range
init_subclass_registers_first(cls, type) ==
    IF /\ type.int
       /\ CLS_BY_TYPE[type.value] = "None"
    THEN /\ CLS_BY_TYPE' = [CLS_BY_TYPE EXCEPT ![type.value] = cls]
         /\ thrown' = [op |-> "declare", arg |-> type.value,
                       error |-> IF 0 <= type.value /\ type.value < MAX_MESSAGE_TYPES
                                 THEN "" ELSE "AssertionError"]
    ELSE /\ UNCHANGED CLS_BY_TYPE
         /\ thrown' = [op |-> "declare", arg |-> type.value, error |-> "AssertionError"]

\* AbstractMessage.__init_subclass__, run by the class statement of a message
\* class: the three asserts, then the class is registered
init_subclass(cls, type) ==
    IF /\ type.int
       /\ CLS_BY_TYPE[type.value] = "None"
       /\ 0 <= type.value /\ type.value < MAX_MESSAGE_TYPES
    THEN /\ CLS_BY_TYPE' = [CLS_BY_TYPE EXCEPT ![type.value] = cls]
         /\ thrown' = Outcome("declare", type.value, "")
    ELSE /\ UNCHANGED CLS_BY_TYPE
         /\ thrown' = Outcome("declare", type.value, "AssertionError")

\* skeleton.networking: MAX_MESSAGE_TYPES = 8 ** SERIALIZER.type_size_bytes
NETWORKING_MAX_MESSAGE_TYPES == Pow(8, TYPE_SIZE_BYTES)

\* AbstractMessage.__init_subclass__ of skeleton.networking: the same three
\* asserts against its own MAX_MESSAGE_TYPES
networking_init_subclass(cls, type) ==
    IF /\ type.int
       /\ CLS_BY_TYPE[type.value] = "None"
       /\ 0 <= type.value /\ type.value < NETWORKING_MAX_MESSAGE_TYPES
    THEN /\ CLS_BY_TYPE' = [CLS_BY_TYPE EXCEPT ![type.value] = cls]
         /\ thrown' = Outcome("declare", type.value, "")
    ELSE /\ UNCHANGED CLS_BY_TYPE
         /\ thrown' = Outcome("declare", type.value, "AssertionError")

\* AbstractMessage.__init_subclass__ of examples.networking_routing.messages:
\* assert cls.message_type not in cls_from_type, then the class is registered
routing_init_subclass(cls, type) ==
    IF CLS_BY_TYPE[type.value] = "None"
    THEN /\ CLS_BY_TYPE' = [CLS_BY_TYPE EXCEPT ![type.value] = cls]
         /\ thrown' = Outcome("declare", type.value, "")
    ELSE /\ UNCHANGED CLS_BY_TYPE
         /\ thrown' = Outcome("declare", type.value, "AssertionError")

\* AbstractGameMessage.__init_subclass__ of examples.simple_networking.messages:
\* the class declares no code and is registered under n = len(cls_from_type)
simple_init_subclass(cls) ==
    LET n == Cardinality({code \in TypeCodes : CLS_BY_TYPE[code] # "None"})
    IN /\ CLS_BY_TYPE' = [CLS_BY_TYPE EXCEPT ![n] = cls]
       /\ thrown' = Outcome("declare", n, "")

\* skeleton.net._unpack: CLS_BY_TYPE[message_type] raises KeyError for a code
\* that is not registered; message_cls.unpack decodes the payload into a
\* message of that class
skeleton_unpack(message_type, message_data) ==
    IF CLS_BY_TYPE[message_type] = "None"
    THEN [error |-> "KeyError", cls |-> "None", message |-> <<>>]
    ELSE [error |-> "", cls |-> CLS_BY_TYPE[message_type],
          message |-> <<CLS_BY_TYPE[message_type], message_data>>]

\* get_routing_annotations_for(scene): (func, message_cls) for every message
\* class in the annotations of every annotated method
RECURSIVE get_routing_annotations_for(_)
get_routing_annotations_for(scene) ==
    IF scene = <<>> THEN <<>>
    ELSE [i \in 1..Len(scene[1].messages) |-> <<scene[1].name, scene[1].messages[i]>>]
             \o get_routing_annotations_for(Tail(scene))

\* the loop of _build_routes that lets a later binding replace an earlier one
RECURSIVE build_loop_last_wins(_, _)
build_loop_last_wins(bindings, table) ==
    IF bindings = <<>> THEN [error |-> "", routes |-> table]
    ELSE build_loop_last_wins(Tail(bindings),
             [table EXCEPT ![bindings[1][2]] = bindings[1][1]])

\* the loop of _build_routes: assert message_cls not in routes, then store
RECURSIVE build_loop(_, _)
build_loop(bindings, table) ==
    IF bindings = <<>> THEN [error |-> "", routes |-> table]
    ELSE IF table[bindings[1][2]] # "None"
         THEN [error |-> "AssertionError", routes |-> table]
         ELSE build_loop(Tail(bindings),
                  [table EXCEPT ![bindings[1][2]] = bindings[1][1]])

\* RoutingClient._build_routes
build_routes(scene) ==
    build_loop(get_routing_annotations_for(scene), EmptyDict(MessageClasses))

\* on_recv_message that ignores a frame whose type code is not registered
on_recv_message_drops_unknown(type, payload) ==
    LET unpacked == skeleton_unpack(type, payload)
    IN /\ UNCHANGED <<CLS_BY_TYPE, routes>>
       /\ thrown' = [op |-> "dispatch", arg |-> type, error |-> ""]
       /\ routed' = IF unpacked.error = "" /\ routes[unpacked.cls] # "None"
                     THEN Append(routed, <<routes[unpacked.cls], unpacked.message>>)
                     ELSE routed

\* on_recv_message that hands a message whose class has no handler to some
\* handler of the table instead of ignoring it
on_recv_message_any_handler(type, payload) ==
    LET unpacked == skeleton_unpack(type, payload)
        bound == {cls \in MessageClasses : routes[cls] # "None"}
    IN IF unpacked.error # ""
       THEN /\ thrown' = [op |-> "dispatch", arg |-> type, error |-> unpacked.error]
            /\ UNCHANGED <<routed, CLS_BY_TYPE, routes>>
       ELSE /\ thrown' = [op |-> "dispatch", arg |-> type, error |-> ""]
            /\ routed' = IF routes[unpacked.cls] # "None"
                          THEN Append(routed, <<routes[unpacked.cls], unpacked.message>>)
                          ELSE IF bound # {}
                               THEN Append(routed, <<routes[CHOOSE cls \in bound : TRUE],
                                                     unpacked.message>>)
                               ELSE routed
            /\ UNCHANGED <<CLS_BY_TYPE, routes>>

\* on_recv_message that drops a route once its handler has been called
on_recv_message_one_shot(type, payload) ==
    LET unpacked == skeleton_unpack(type, payload)
    IN IF unpacked.error # ""
       THEN /\ thrown' = [op |-> "dispatch", arg |-> type, error |-> unpacked.error]
            /\ UNCHANGED <<routed, CLS_BY_TYPE, routes>>
       ELSE /\ thrown' = [op |-> "dispatch", arg |-> type, error |-> ""]
            /\ routed' = IF routes[unpacked.cls] # "None"
                          THEN Append(routed, <<routes[unpacked.cls], unpacked.message>>)
                          ELSE routed
            /\ routes' = [routes EXCEPT ![unpacked.cls] = "None"]
            /\ UNCHANGED CLS_BY_TYPE

\* RoutingClient.on_recv_message: unpack, look the class up, call the handler;
\* the registry and the route table are only read
on_recv_message(type, payload) ==
    LET unpacked == skeleton_unpack(type, payload)
    IN IF unpacked.error # ""
       THEN /\ thrown' = Outcome("dispatch", type, unpacked.error)
            /\ UNCHANGED <<routed, CLS_BY_TYPE, routes>>
       ELSE /\ thrown' = Outcome("dispatch", type, "")
            /\ routed' = IF routes[unpacked.cls] # "None"
                          THEN Append(routed, <<routes[unpacked.cls], unpacked.message>>)
                          ELSE routed
            /\ UNCHANGED <<CLS_BY_TYPE, routes>>

\* the class statement of a message class that is not registered yet
Declare(cls, type) ==
    /\ \A code \in TypeCodes : CLS_BY_TYPE[code] # cls
    /\ CASE module = "skeleton.net" -> init_subclass(cls, type)
         [] module = "skeleton.networking" -> networking_init_subclass(cls, type)
         [] module = "examples.networking_routing.messages" ->
                \* the classes of this module declare integer codes
                type.int /\ routing_init_subclass(cls, type)
         [] module = "examples.simple_networking.messages" ->
                simple_init_subclass(cls)
    /\ UNCHANGED <<module, routes, built, routed, serverVars, udpVars, handlerVars, serializer, codecVars, connVars>>

\* RoutingClient.__init__ for scene number n: when _build_routes raises, no
\* client comes to exist
BuildRoutingClient(n) ==
    /\ ~built
    /\ LET result == build_routes(Scenes[n])
       IN IF result.error # ""
          THEN /\ thrown' = Outcome("build", n, result.error)
               /\ UNCHANGED <<routes, built>>
          ELSE /\ thrown' = Outcome("build", n, "")
               /\ routes' = result.routes
               /\ built' = TRUE
    /\ UNCHANGED <<module, CLS_BY_TYPE, routed, serverVars, udpVars, handlerVars, serializer, codecVars, connVars>>

\* a frame arrives on the client's connection: on_recv_message(type, payload)
Dispatch(type, payload) ==
    /\ built
    /\ Len(routed) < MaxDispatches
    /\ on_recv_message(type, payload)
    /\ UNCHANGED <<module, built, serverVars, udpVars, handlerVars, serializer, codecVars, connVars>>

NextRouting ==
    \/ \E cls \in MessageClasses, type \in MessageTypes : Declare(cls, type)
    \/ \E n \in 1..Len(Scenes) : BuildRoutingClient(n)
    \/ \E type \in DispatchTypes, payload \in DispatchPayloads : Dispatch(type, payload)

SpecRouting == Init /\ [][NextRouting]_vars

(***************************************************************************)
(* The registry of each module that keeps one, filled by the class         *)
(* statements of message classes.                                          *)
(***************************************************************************)
InitRegistry ==
    /\ serializer = MessageSerializer(TYPE_SIZE_BYTES, TCP_MESSAGE_DATA_SIZE_BYTES, "big")
    /\ CodecInit
    /\ ConnInit
    /\ UdpInit
    /\ HandlerInit
    /\ mode = "tcp"
    /\ ServerInit
    /\ module \in Modules
    /\ CLS_BY_TYPE = EmptyDict(TypeCodes)
    /\ routes = EmptyDict(MessageClasses)
    /\ built = FALSE
    /\ routed = <<>>
    /\ thrown = Outcome("", 0, "")

NextRegistry ==
    \E cls \in MessageClasses, type \in MessageTypes : Declare(cls, type)

SpecRegistry == InitRegistry /\ [][NextRegistry]_vars

(***************************************************************************)
(* The datagram variant: MessageSerializer and UDPMessageProtocol of       *)
(* rapid.networking.udp.  Two endpoints exchange datagrams; a datagram is  *)
(* kept with the (type, payload) it was packed from, or None when a        *)
(* foreign sender wrote its bytes.                                         *)
(***************************************************************************)
\* the datagrams one run may put in flight
MaxDatagrams == 2

\* the type codes and payloads handed to the datagram send
DatagramTypes == {1, 256}

DatagramPayloads == {<<>>, <<98, 98>>}

\* datagrams that no pack call produced
ForeignDatagrams == {<<>>, <<5>>}

\* udp.MessageSerializer.__init__
UDPMessageSerializer(type_size_bytes, byteorder) ==
    [byteorder       |-> byteorder,
     type_size_bytes |-> type_size_bytes,
     fixed_slices    |-> build_slices(<< <<"msg_type", type_size_bytes>> >>)]

\* datagram pack that writes the length of the payload after the type, as
\* the stream serializer does
udp_pack_with_length(self, type, payload) ==
    to_bytes(type, self.type_size_bytes, self.byteorder)
        \o to_bytes(Len(payload), 1, self.byteorder)
        \o payload

\* udp.MessageSerializer.pack, on inputs that do not raise
udp_pack(self, type, payload) ==
    to_bytes(type, self.type_size_bytes, self.byteorder) \o payload

\* udp.MessageSerializer.unpack: <<message_type, message_data>>
udp_unpack(self, datagram) ==
    LET message_type ==
            from_bytes(Slice(datagram, self.fixed_slices["msg_type"].start,
                             self.fixed_slices["msg_type"].stop),
                       self.byteorder)
        data_start == self.fixed_slices["_total"].stop
        message_data == SliceFrom(datagram, data_start)
    IN <<message_type, message_data>>

\* a datagram: the bytes, and the (type, payload) they were packed from
Datagram(frame, bytes) == [frame |-> frame, bytes |-> bytes]

Other(side) == IF side = "client" THEN "server" ELSE "client"

\* the datagram endpoint of a side is open: connection_made was called with
\* its transport and connection_lost was not
UdpOpen(side) ==
    /\ udpCalls[side] # <<>>
    /\ \A i \in 1..Len(udpCalls[side]) :
           udpCalls[side][i].callback # "on_connection_lost"

\* the datagrams put in flight so far
Datagrams ==
    Len(inflight["client"]) + Len(inflight["server"])
        + Len(udpReceived["client"]) + Len(udpReceived["server"])

\* UDPMessageProtocol.connection_made
UdpConnectionMade(side) ==
    /\ udpCalls[side] = <<>>
    /\ udpTransport' = [udpTransport EXCEPT ![side] = "transport"]
    /\ udpCalls' = [udpCalls EXCEPT ![side] =
                        Append(@, Called("on_connection_made", 0, <<>>))]
    /\ UNCHANGED <<inflight, udpReceived, udpLast,
                   handlerVars, serializer, codecVars, connVars, serverVars, routingVars>>

\* UDPMessageProtocol.send: assert self.transport, pack, transport.sendto
UdpSend(side, type, payload) ==
    /\ Datagrams < MaxDatagrams
    /\ IF udpTransport[side] = "None"
       THEN /\ udpLast' = Call("udp", <<side, 0>>, "AssertionError")
            /\ UNCHANGED inflight
       ELSE IF ~Fits(type, serializer.type_size_bytes)
       THEN /\ udpLast' = Call("udp", <<side, 0>>, "OverflowError")
            /\ UNCHANGED inflight
       ELSE /\ udpLast' = Call("udp", <<side, 0>>, "")
            /\ inflight' = [inflight EXCEPT ![Other(side)] =
                                Append(@, Datagram(<<type, payload>>,
                                                   udp_pack(serializer, type, payload)))]
    /\ UNCHANGED <<udpTransport, udpReceived, udpCalls,
                   handlerVars, serializer, codecVars, connVars, serverVars, routingVars>>

\* a sender that is not a UDPMessageProtocol writes bytes to an endpoint
ForeignSend(side, bytes) ==
    /\ Datagrams < MaxDatagrams
    /\ inflight' = [inflight EXCEPT ![side] = Append(@, Datagram(None, bytes))]
    /\ UNCHANGED <<udpTransport, udpReceived, udpCalls, udpLast,
                   handlerVars, serializer, codecVars, connVars, serverVars, routingVars>>

\* datagram_received that drops a datagram shorter than the type field
DatagramReceived_drops_short(side, i) ==
    /\ UdpOpen(side)
    /\ i \in 1..Len(inflight[side])
    /\ LET arrived == inflight[side][i]
           unpacked == udp_unpack(serializer, arrived.bytes)
       IN /\ udpCalls' = [udpCalls EXCEPT ![side] =
                  IF Len(arrived.bytes) < serializer.type_size_bytes THEN @
                  ELSE Append(@, [callback |-> "on_recv_message",
                                  type |-> unpacked[1], data |-> unpacked[2]])]
          /\ udpReceived' = [udpReceived EXCEPT ![side] = Append(@, arrived)]
          /\ inflight' = [inflight EXCEPT ![side] =
                  SubSeq(@, 1, i - 1) \o SubSeq(@, i + 1, Len(@))]
    /\ UNCHANGED <<udpTransport, udpLast,
                   handlerVars, serializer, codecVars, connVars, serverVars, routingVars>>

\* UDPMessageProtocol.datagram_received for the i-th datagram in flight:
\* datagrams arrive in any order
DatagramReceived(side, i) ==
    /\ UdpOpen(side)
    /\ i \in 1..Len(inflight[side])
    /\ LET arrived == inflight[side][i]
           unpacked == udp_unpack(serializer, arrived.bytes)
       IN /\ udpCalls' = [udpCalls EXCEPT ![side] =
                  Append(@, Called("on_recv_message", unpacked[1], unpacked[2]))]
          /\ udpReceived' = [udpReceived EXCEPT ![side] = Append(@, arrived)]
          /\ inflight' = [inflight EXCEPT ![side] =
                  SubSeq(@, 1, i - 1) \o SubSeq(@, i + 1, Len(@))]
    /\ UNCHANGED <<udpTransport, udpLast,
                   handlerVars, serializer, codecVars, connVars, serverVars, routingVars>>

\* UDPMessageProtocol.connection_lost: the endpoint was closed
UdpConnectionLost(side) ==
    /\ UdpOpen(side)
    /\ udpTransport' = [udpTransport EXCEPT ![side] = "None"]
    /\ udpCalls' = [udpCalls EXCEPT ![side] =
                        Append(@, Called("on_connection_lost", 0, <<>>))]
    /\ UNCHANGED <<inflight, udpReceived, udpLast,
                   handlerVars, serializer, codecVars, connVars, serverVars, routingVars>>

InitDatagram ==
    /\ serializer \in {UDPMessageSerializer(t, o) : t \in TypeSizes, o \in ByteOrders}
    /\ CodecInit
    /\ ConnInit
    /\ UdpInit
    /\ HandlerInit
    /\ mode = "udp"
    /\ ServerInit
    /\ RoutingInit

NextDatagram ==
    \/ \E side \in Sides : UdpConnectionMade(side)
    \/ \E side \in Sides, type \in DatagramTypes, payload \in DatagramPayloads :
           UdpSend(side, type, payload)
    \/ \E side \in Sides, bytes \in ForeignDatagrams : ForeignSend(side, bytes)
    \/ \E side \in Sides : \E i \in 1..Len(inflight[side]) : DatagramReceived(side, i)
    \/ \E side \in Sides : UdpConnectionLost(side)

SpecDatagram == InitDatagram /\ [][NextDatagram]_vars

(***************************************************************************)
(* Properties of the codec.                                                *)
(***************************************************************************)
\* the wire length of a frame: header plus payload
FrameLen(frame) ==
    serializer.type_size_bytes + serializer.data_size_bytes + Len(frame[2])

\* the packed bytes of a sequence of frames, concatenated
RECURSIVE PackAll(_)
PackAll(fs) ==
    IF fs = <<>> THEN <<>>
    ELSE pack(serializer, fs[1][1], fs[1][2]) \o PackAll(Tail(fs))

\* C1: unpack(pack(type, payload)) returns ((type, payload), b"") for every
\* valid type and payload, the empty payload included, in either byte order.
C1_RoundTrip ==
    (phase = "drain" /\ Len(frames) = 1 /\ data = stream)
        => (message = frames[1] /\ rest = <<>>)

C1_Witness ==
    /\ phase = "drain"
    /\ frames = << <<256, <<>>>> >>
    /\ data = stream
    /\ serializer.byteorder = "little"
    /\ message = <<256, <<>>>>
    /\ rest = <<>>

\* C2: on every strict prefix b of a frame (empty, partial header, full header
\* with partial payload) unpack returns (None, b); on the full frame it returns
\* the frame and an empty remainder.
C2_PartialDelivery ==
    phase = "prefix" =>
        /\ Len(data) < FrameLen(frames[1]) => (message = None /\ rest = data)
        /\ Len(data) = FrameLen(frames[1]) => (message = frames[1] /\ rest = <<>>)

C2_Witness ==
    /\ phase = "prefix"
    /\ frames = << <<2, <<98, 98>>>> >>
    /\ Len(data) = FrameLen(frames[1]) - 1
    /\ message = None
    /\ rest = data

\* C3: unpack on f1 || ... || fn returns f1 with remainder f2 || ... || fn, and
\* repeated unpack on the remainder yields f2, ..., fn in order and then
\* (None, b"").
C3_BatchedFrames ==
    phase = "drain" =>
        /\ Len(got) <= Len(frames)
        /\ got = SubSeq(frames, 1, Len(got))
        /\ rest = PackAll(SubSeq(frames, Len(got) + 1, Len(frames)))
        /\ message # None => message = got[Len(got)]
        /\ message = None => (got = frames /\ rest = <<>>)

C3_Witness ==
    /\ phase = "drain"
    /\ frames = << <<1, <<97>>>>, <<2, <<98, 98>>>> >>
    /\ got = frames
    /\ message = None
    /\ rest = <<>>

\* the base-256 digit of n with weight 256^k
Digit(n, k) == (n \div Pow(256, k)) % 256

\* the bytes at offset..offset+length-1 of the stream are the digits of n,
\* most significant first when the byte order is big, least significant first
\* when it is little
FieldAt(offset, length, n) ==
    \A i \in 1..length :
        stream[offset + i] =
            Digit(n, IF serializer.byteorder = "big" THEN length - i ELSE i - 1)

\* where the k-th packed frame starts in the stream
RECURSIVE Offset(_)
Offset(k) == IF k = 1 THEN 0 ELSE Offset(k - 1) + FrameLen(frames[k - 1])

\* C23: the packed bytes of a valid (type, payload) are type_size_bytes bytes
\* holding the type, then data_size_bytes bytes holding len(payload), then the
\* payload, both integers in the configured byte order, and nothing else: the
\* length is type_size_bytes + data_size_bytes + len(payload).
C23_WireLayout ==
    /\ Len(stream) = Offset(Len(frames) + 1)
    /\ \A k \in 1..Len(frames) :
           LET type == frames[k][1]
               payload == frames[k][2]
               ts == serializer.type_size_bytes
               ds == serializer.data_size_bytes
           IN /\ Fits(type, ts) /\ Fits(Len(payload), ds)
              /\ FieldAt(Offset(k), ts, type)
              /\ FieldAt(Offset(k) + ts, ds, Len(payload))
              /\ \A i \in 1..Len(payload) :
                     stream[Offset(k) + ts + ds + i] = payload[i]

C23_Witness ==
    /\ serializer.byteorder = "big"
    /\ serializer.type_size_bytes = 2
    /\ serializer.data_size_bytes = 2
    /\ frames = << <<256, <<0, 1, 0>>>>, <<1, <<>>>> >>
    /\ stream = <<1, 0, 0, 3, 0, 1, 0, 0, 1, 0, 0>>
    /\ phase = "pack"

\* the bytes of data at offset..offset+length-1 are the digits of n in the
\* configured byte order
DataFieldAt(offset, length, n) ==
    \A i \in 1..length :
        data[offset + i] =
            Digit(n, IF serializer.byteorder = "big" THEN length - i ELSE i - 1)

\* C26: on every byte string b, frames or not, unpack returns either
\* (None, b), when b is shorter than a header or than the frame its header
\* announces, or ((type, payload), rest) where the header bytes of b hold type
\* and len(payload) and header || payload || rest = b: no byte is lost,
\* duplicated or reordered.
C26_UnpackConserves ==
    phase = "bytes" =>
        LET ts == serializer.type_size_bytes
            ds == serializer.data_size_bytes
        IN IF message = None
           THEN /\ rest = data
                /\ \/ Len(data) < ts + ds
                   \/ \E n \in (Len(data) - ts - ds + 1)..(Pow(256, ds) - 1) :
                          DataFieldAt(ts, ds, n)
           ELSE /\ Len(data) >= ts + ds
                /\ DataFieldAt(0, ts, message[1])
                /\ DataFieldAt(ts, ds, Len(message[2]))
                /\ SubSeq(data, 1, ts + ds) \o message[2] \o rest = data

C26_Witness ==
    /\ phase = "bytes"
    /\ serializer.type_size_bytes = 1
    /\ serializer.data_size_bytes = 1
    /\ data = <<255, 0, 2, 1>>
    /\ message = <<255, <<>>>>
    /\ rest = <<2, 1>>

(***************************************************************************)
(* Properties of the stream connection and the client.                     *)
(***************************************************************************)
\* the (type, payload) pairs of the on_recv_message calls in a history
RECURSIVE Messages(_)
Messages(h) ==
    IF h = <<>> THEN <<>>
    ELSE IF h[1].callback = "on_recv_message"
         THEN <<<<h[1].type, h[1].data>>>> \o Messages(Tail(h))
         ELSE Messages(Tail(h))

\* how often a callback occurs in a history
RECURSIVE Count(_, _)
Count(h, callback) ==
    IF h = <<>> THEN 0
    ELSE (IF h[1].callback = callback THEN 1 ELSE 0) + Count(Tail(h), callback)

IsPrefix(a, b) == Len(a) <= Len(b) /\ a = SubSeq(b, 1, Len(a))

\* the Connected state of a connection, as the transport and the calls made on
\* it define it: the transport was connected, no disconnect() has closed it and
\* its loss has not been reported
IsConnected(self) == tstate[self] \in {"open", "closing"} /\ ~closeCalled[self]

Made == [callback |-> "on_connection_made", type |-> 0, data |-> <<>>]

Lost == [callback |-> "on_connection_lost", type |-> 0, data |-> <<>>]

Ping == <<1, <<112, 105, 110, 103>>>>

\* C4: however the bytes of a sequence of frames are split into data_received
\* chunks, the on_recv_message calls are exactly the frames, each once and in
\* order, and the receive buffer is empty after the last chunk.
C4_ChunkingIndependence ==
    \A self \in Protocols : \A n \in 0..Len(sent[Peer(self)]) :
        delivered[self] = PackAll(SubSeq(sent[Peer(self)], 1, n))
            => /\ Messages(history[self]) = SubSeq(sent[Peer(self)], 1, n)
               /\ buffer[self] = <<>>

C4_Witness ==
    /\ Len(sent[<<"client", 1>>]) = 2
    /\ Messages(history[<<"server", 1>>]) = sent[<<"client", 1>>]
    /\ delivered[<<"server", 1>>] = written[<<"client", 1>>]
    /\ buffer[<<"server", 1>>] = <<>>

\* C5: on_connection_lost is invoked exactly once for a connection that was
\* connected, whatever the interleaving of disconnect() calls (on the protocol
\* or the client) with a close by the peer or an I/O error; on a connection
\* that is already disconnected nothing changes but the one report of its loss.
C5_ExactlyOnceLost ==
    [][\A self \in Protocols :
          /\ (Count(history[self], "on_connection_lost")
                 = IF tstate[self] = "closed" THEN 1 ELSE 0)'
          /\ (closeCalled[self] \/ tstate[self] = "closed")
                => \/ /\ transport'[self] = transport[self]
                      /\ tstate'[self] = tstate[self]
                      /\ tcause'[self] = tcause[self]
                      /\ closeCalled'[self] = closeCalled[self]
                      /\ buffer'[self] = buffer[self]
                      /\ history'[self] = history[self]
                   \/ /\ tstate[self] = "closing"
                      /\ tstate'[self] = "closed"
                      /\ history'[self] = Append(history[self], Lost)
                      /\ transport'[self] = "None"]_vars

C5_Witness ==
    /\ 1 \in disconnectReturned
    /\ tstate[<<"client", 1>>] = "closed"
    /\ tcause[<<"client", 1>>] = "eof"
    /\ closeCalled[<<"client", 1>>]
    /\ Count(history[<<"client", 1>>], "on_connection_lost") = 1

\* C6: send on a protocol or client that is not connected (never connected,
\* disconnected locally, or lost) raises and writes nothing; on a connected one
\* it hands exactly pack(type, payload) to the transport.
C6_SendRequiresConnected ==
    [][(lastCall' # lastCall \/ sends' # sends) =>
          LET self == lastCall'.protocol
              wasConnected ==
                  IF lastCall'.via = "client"
                  THEN protocol # 0 /\ IsConnected(<<"client", protocol>>)
                  ELSE IsConnected(self)
          IN IF wasConnected
             THEN /\ lastCall'.raised = ""
                  /\ \E frame \in SendFrames :
                        /\ written' = [written EXCEPT ![self] =
                               @ \o pack(serializer, frame[1], frame[2])]
                        /\ sent' = [sent EXCEPT ![self] = Append(@, frame)]
             ELSE /\ lastCall'.raised = "AssertionError"
                  /\ written' = written
                  /\ wire' = wire
                  /\ sent' = sent]_vars

C6_Witness ==
    /\ lastCall = [via |-> "protocol", protocol |-> <<"client", 1>>,
                   raised |-> "AssertionError"]
    /\ closeCalled[<<"client", 1>>]
    /\ sent[<<"client", 1>>] = <<Ping>>
    /\ written[<<"client", 1>>] = pack(serializer, Ping[1], Ping[2])

\* C7: for each connection on_connection_made comes before every
\* on_recv_message, on_connection_lost comes after them and nothing follows it;
\* when the client connects, sends (1, b"ping") and disconnects, the server sees
\* on_connection_made, on_recv_message(1, b"ping") and one on_connection_lost.
C7_CallbackOrder ==
    /\ \A self \in Protocols : \A i \in 1..Len(history[self]) :
          /\ history[self][i].callback = "on_connection_made" <=> i = 1
          /\ history[self][i].callback = "on_connection_lost"
                => i = Len(history[self])
    /\ \A link \in Links :
          (/\ tcause[<<"client", link>>] = "close"
           /\ sent[<<"client", link>>] = <<Ping>>
           /\ tstate[<<"server", link>>] = "closed"
           /\ tcause[<<"server", link>>] = "eof")
          => history[<<"server", link>>] =
                 <<Made, [callback |-> "on_recv_message",
                          type |-> Ping[1], data |-> Ping[2]], Lost>>

C7_Witness ==
    /\ 1 \in disconnectReturned
    /\ sent[<<"client", 1>>] = <<Ping>>
    /\ tcause[<<"server", 1>>] = "eof"
    /\ history[<<"server", 1>>] =
           <<Made, [callback |-> "on_recv_message",
                    type |-> Ping[1], data |-> Ping[2]], Lost>>

\* C8: the on_recv_message calls of a connection are a prefix of the frames the
\* peer sent, in the order of the send calls, whatever the segmentation.
C8_EndToEndOrder ==
    \A self \in Protocols : IsPrefix(Messages(history[self]), sent[Peer(self)])

C8_Witness ==
    /\ sent[<<"client", 1>>] = <<<<2, <<>>>>, Ping>>
    /\ Messages(history[<<"server", 1>>]) = <<<<2, <<>>>>, Ping>>

C10_DisconnectAwaitsLost ==
    \A link \in disconnectReturned :
        /\ tstate[<<"client", link>>] = "closed"
        /\ Count(history[<<"client", link>>], "on_connection_lost") = 1

(***************************************************************************)
(* Properties of the client over its lifetime.                             *)
(***************************************************************************)
\* C11: after any sequence of connect() and disconnect() calls on one client,
\* connect() while already connected included, at most one connection whose
\* handler is the client is in the Connected state.
C11_OneConnection ==
    Cardinality({self \in ClientEnds : IsConnected(self)}) <= 1

\* C16: a connect() whose create_connection fails raises to the caller and
\* changes nothing else: the client owns what it owned before (nothing, when
\* it was not connected, and then it stays not connected), no protocol is
\* connected and no handler callback is invoked for the attempt, now or later,
\* and no further create_connection is started by the client itself.
C16_FailedConnect ==
    /\ [][refused' # refused =>
             /\ refused' = refused \cup {connecting}
             /\ protocol' = protocol
             /\ protocol = 0 => ~connected'
             /\ history' = history
             /\ tstate' = tstate
             /\ transport' = transport
             /\ links' = links
             /\ connecting' = 0]_vars
    /\ [](\A link \in refused :
             /\ history[<<"client", link>>] = <<>>
             /\ tstate[<<"client", link>>] = "unborn"
             /\ protocol # link)

C16_Witness ==
    /\ refused = {1}
    /\ connecting = 0
    /\ protocol = 0
    /\ ~connected
    /\ history[<<"client", 1>>] = <<>>

(***************************************************************************)
(* Properties of the Server.                                               *)
(***************************************************************************)
\* how often an event occurs in the server's log
Occurrences(event) ==
    Cardinality({i \in 1..Len(serverLog) : serverLog[i].event = event})

\* no stop() has been called
NoStop == \A t \in StopTasks : stopTask[t].pc = "idle"

\* C12: over any interleaving of start calls with no intervening stop, a
\* second start issued while the first is suspended in bind/listen included,
\* exactly one listener is created and on_start is invoked exactly once.
C12_StartOnce ==
    NoStop => /\ Len(listeners) <= 1
              /\ Occurrences("on_start") <= 1

\* C13: stop() on a running server, of the stream or the datagram variant,
\* invokes on_stop, then closes the listening endpoint, and does not fail.
C13_StopCloses ==
    /\ \A t \in StopTasks : stopTask[t].pc # "raised"
    /\ \A i \in 1..Len(serverLog) :
          serverLog[i].event = "on_stop"
              => /\ i < Len(serverLog)
                 /\ serverLog[i + 1] = Event("close", serverLog[i].listener)
                 /\ listeners[serverLog[i].listener] = "closed"

\* C17: a start() whose bind/listen fails raises to the caller and changes
\* nothing else: on_start is not invoked and the server is not marked
\* running, so while no start has succeeded the server is not running, and
\* the next start call goes to bind again.
C17_FailedStart ==
    /\ [][\A t \in StartTasks :
             (startTask[t] # "raised" /\ startTask'[t] = "raised")
                 => /\ running' = running
                    /\ server' = server
                    /\ listeners' = listeners
                    /\ serverLog' = serverLog]_vars
    /\ []((\A t \in StartTasks : startTask[t] # "done")
             => /\ ~running
                /\ listeners = <<>>
                /\ Occurrences("on_start") = 0)
    /\ [][\A t \in StartTasks :
             (startTask[t] = "idle" /\ startTask'[t] # "idle" /\ ~running)
                 => startTask'[t] = "create_server"]_vars

C17_Witness ==
    /\ startTask[1] = "raised"
    /\ startTask[2] = "done"
    /\ running
    /\ Len(listeners) = 1
    /\ Occurrences("on_start") = 1

\* a stop() call has closed a listener and completed
Stopped == \E t \in StopTasks : stopTask[t].pc = "done" /\ stopTask[t].listener # 0

\* C14: stop() leaves every accepted connection as it is: no step of stop
\* changes a transport, a receive buffer, the bytes in flight or a handler
\* history; after stop has completed an accepted connection still turns its
\* peer's frames into on_recv_message calls and its send still writes the
\* packed frame; on_connection_lost is reported only for a connection whose
\* own transport closed, by its disconnect() or by the peer's end of stream.
C14_StopLeavesConnections ==
    /\ [][stopTask' # stopTask =>
             UNCHANGED <<transport, buffer, tstate, tcause, closeCalled, wire,
                         delivered, written, sent, history>>]_vars
    /\ [][\A self \in Accepted :
             (Stopped /\ delivered'[self] # delivered[self])
                 => LET done == unpack_loop(buffer[self] \o
                                   SubSeq(delivered'[self], Len(delivered[self]) + 1,
                                          Len(delivered'[self])), <<>>)
                    IN /\ history'[self] = history[self] \o done[1]
                       /\ buffer'[self] = done[2]
                       /\ IsPrefix(Messages(history'[self]), sent[Peer(self)])]_vars
    /\ [][\A self \in Accepted :
             (/\ Stopped
              /\ lastCall' # lastCall \/ sends' # sends
              /\ lastCall'.protocol = self
              /\ IsConnected(self))
                 => /\ lastCall'.raised = ""
                    /\ \E frame \in SendFrames :
                          written'[self] = written[self] \o pack(serializer, frame[1], frame[2])]_vars
    /\ [](\A self \in Accepted :
             Count(history[self], "on_connection_lost") > 0
                 => /\ tstate[self] = "closed"
                    /\ \/ tcause[self] = "close" /\ closeCalled[self]
                       \/ tcause[self] = "eof" /\ tstate[Peer(self)] \in {"closing", "closed"})

C14_Witness ==
    /\ Stopped
    /\ ~running
    /\ tstate[<<"server", 1>>] = "open"
    /\ buffer[<<"server", 1>>] # <<>>
    /\ wire[<<"server", 1>>] # <<>>
    /\ sent[<<"server", 1>>] # <<>>

\* C15: each accepted connection has its own receive buffer: for every
\* interleaving of data_received across connections, the bytes that arrived on
\* a connection are exactly its delivered frames followed by its own pending
\* partial frame, the delivered frames are the first frames its own peer sent,
\* and on_connection_made / on_connection_lost are each reported once per
\* connection.
C15_Isolation ==
    \A self \in ServerEnds :
        /\ delivered[self] = PackAll(Messages(history[self])) \o buffer[self]
        /\ unpack(serializer, buffer[self])[1] = None
        /\ IsPrefix(Messages(history[self]), sent[Peer(self)])
        /\ Count(history[self], "on_connection_made") =
               (IF tstate[self] = "unborn" THEN 0 ELSE 1)
        /\ Count(history[self], "on_connection_lost") =
               (IF tstate[self] = "closed" THEN 1 ELSE 0)

C15_Witness ==
    /\ buffer[<<"server", 1>>] # <<>>
    /\ wire[<<"server", 1>>] # <<>>
    /\ buffer[<<"server", 2>>] = <<>>
    /\ history[<<"server", 2>>] =
           <<Made, [callback |-> "on_recv_message", type |-> Ping[1], data |-> Ping[2]]>>
    /\ history[<<"server", 1>>] = <<Made>>

(***************************************************************************)
(* Properties of the registry and of the route table.                      *)
(***************************************************************************)
\* C18: declaring a message class whose type code is already registered
\* raises in the class statement itself and leaves the registry as it was: an
\* entry of the registry is only ever filled when it was empty, never
\* replaced; no dispatch raises that error.
C18_DuplicateTypeCode ==
    /\ [][CLS_BY_TYPE' # CLS_BY_TYPE =>
             \E code \in TypeCodes :
                 /\ CLS_BY_TYPE[code] = "None"
                 /\ CLS_BY_TYPE'[code] # "None"
                 /\ \A other \in TypeCodes \ {code} :
                        CLS_BY_TYPE'[other] = CLS_BY_TYPE[other]
                 /\ thrown' = Outcome("declare", code, "")]_vars
    /\ [][(/\ thrown' # thrown
           /\ thrown'.op = "declare"
           /\ CLS_BY_TYPE[thrown'.arg] # "None")
             => /\ thrown'.error = "AssertionError"
                /\ UNCHANGED <<CLS_BY_TYPE, routes, built, routed>>]_vars
    /\ [](thrown.op = "dispatch" => thrown.error \in {"", "KeyError"})

C18_Witness ==
    /\ thrown = Outcome("declare", 1, "AssertionError")
    /\ CLS_BY_TYPE[1] = "PlayerMoveAction"
    /\ CLS_BY_TYPE[0] = "GameUpdate"
    /\ ~built
    /\ links = 0

\* C19: a type code with no registered class does not resolve: _unpack raises,
\* and when on_recv_message is given such a frame the error leaves
\* on_recv_message and no handler is called; a registered code raises nothing.
C19_UnknownType ==
    /\ [](\A code \in TypeCodes :
             skeleton_unpack(code, <<>>).error =
                 (IF CLS_BY_TYPE[code] = "None" THEN "KeyError" ELSE ""))
    /\ [][(thrown'.op = "dispatch" /\ (thrown' # thrown \/ routed' # routed))
             => IF CLS_BY_TYPE[thrown'.arg] = "None"
                THEN /\ thrown'.error = "KeyError"
                     /\ routed' = routed
                ELSE thrown'.error = ""]_vars

C19_Witness ==
    /\ thrown = Outcome("dispatch", 99, "KeyError")
    /\ built
    /\ Len(routed) = 1
    /\ routed[1][2][2] = <<7>>

\* the bindings of a scene name some message class more than once
Duplicated(bindings) ==
    \E i, j \in 1..Len(bindings) : i # j /\ bindings[i][2] = bindings[j][2]

\* C20: building the route table of a target fails, in the constructor and
\* before any frame is dispatched, exactly when two of the target's handler
\* bindings name the same message class; a table that is built maps every
\* message class to the one method bound to it, and no dispatch raises the
\* duplicate error.
C20_RouteTable ==
    /\ [][(thrown'.op = "build" /\ thrown' # thrown) =>
             LET bindings == get_routing_annotations_for(Scenes[thrown'.arg])
             IN IF Duplicated(bindings)
                THEN /\ thrown'.error = "AssertionError"
                     /\ ~built'
                     /\ UNCHANGED <<routes, routed>>
                ELSE /\ thrown'.error = ""
                     /\ built'
                     /\ \A cls \in MessageClasses :
                           \/ \E i \in 1..Len(bindings) :
                                 bindings[i] = <<routes'[cls], cls>>
                           \/ /\ routes'[cls] = "None"
                              /\ \A i \in 1..Len(bindings) : bindings[i][2] # cls]_vars
    /\ [](~built => routes = EmptyDict(MessageClasses) /\ routed = <<>>)
    /\ [](thrown.op = "dispatch" => thrown.error # "AssertionError")

C20_Witness ==
    /\ thrown = Outcome("build", 4, "AssertionError")
    /\ ~built
    /\ routed = <<>>
    /\ CLS_BY_TYPE[0] = "PlayerMoveAction"

\* the methods of the scene that the route table names
Handlers == {routes[cls] : cls \in MessageClasses} \ {"None"}

\* C21: when a frame whose type code resolves to a registered class K is
\* dispatched, a target with a handler bound to K has exactly that handler
\* called exactly once with the message decoded from the payload, and no other
\* handler is called; a target with no handler for K has no handler called and
\* no error is raised.
C21_RouteDispatch ==
    [][\A type \in DispatchTypes, payload \in DispatchPayloads :
          (Dispatch(type, payload) /\ CLS_BY_TYPE[type] # "None") =>
              LET K == CLS_BY_TYPE[type]
              IN /\ thrown'.error = ""
                 /\ IF routes[K] # "None"
                    THEN /\ Len(routed') = Len(routed) + 1
                         /\ SubSeq(routed', 1, Len(routed)) = routed
                         /\ routed'[Len(routed')] = <<routes[K], <<K, payload>>>>
                    ELSE routed' = routed]_vars

C21_Witness ==
    /\ built
    /\ routed = << <<"on_move", <<"PlayerMoveAction", <<7>>>>>> >>
    /\ Handlers = {"on_move", "on_update"}
    /\ \E code \in DispatchTypes :
          /\ CLS_BY_TYPE[code] = "Chat"
          /\ routes["Chat"] = "None"
          /\ thrown = Outcome("dispatch", code, "")

(***************************************************************************)
(* Properties of the datagram variant.                                     *)
(***************************************************************************)
\* C22: a datagram packed from (type, payload) with the type in range is the
\* type field followed by the payload, with no length field, and unpacks to
\* (type, payload); every datagram_received makes exactly one on_recv_message
\* call, decoded from that datagram alone, whatever was received before it.
C22_DatagramCodec ==
    \A side \in Sides :
        /\ \A i \in 1..Len(inflight[side]) :
               LET d == inflight[side][i]
               IN d.frame # None =>
                     /\ Fits(d.frame[1], serializer.type_size_bytes)
                     /\ Len(d.bytes) = serializer.type_size_bytes + Len(d.frame[2])
                     /\ udp_unpack(serializer, d.bytes) = d.frame
        /\ Len(Messages(udpCalls[side])) = Len(udpReceived[side])
        /\ \A i \in 1..Len(udpReceived[side]) :
               LET d == udpReceived[side][i]
               IN /\ Messages(udpCalls[side])[i] = udp_unpack(serializer, d.bytes)
                  /\ d.frame # None =>
                        /\ Messages(udpCalls[side])[i] = d.frame
                        /\ Len(d.bytes) = serializer.type_size_bytes + Len(d.frame[2])

C22_Witness ==
    /\ serializer.type_size_bytes = 2
    /\ serializer.byteorder = "little"
    /\ Len(udpReceived["server"]) = 2
    /\ udpReceived["server"][1].frame = None
    /\ udpReceived["server"][2] = Datagram(<<256, <<98, 98>>>>, <<0, 1, 98, 98>>)
    /\ Messages(udpCalls["server"]) = << <<5, <<>>>>, <<256, <<98, 98>>>> >>

(***************************************************************************)
(* Properties of the registries.                                           *)
(***************************************************************************)
\* C24: with type_size_bytes = 1 the skeleton registries take 256 message
\* kinds: declaring a class whose type code is an integer in [0, 256) that is
\* not registered yet succeeds and registers the class under that code.
C24_AllCodesRegister ==
    [][\A cls \in MessageClasses, type \in MessageTypes :
          (/\ module \in {"skeleton.net", "skeleton.networking"}
           /\ Declare(cls, type)
           /\ type.int
           /\ 0 <= type.value /\ type.value < Pow(256, TYPE_SIZE_BYTES)
           /\ CLS_BY_TYPE[type.value] = "None")
              => /\ thrown'.error = ""
                 /\ CLS_BY_TYPE'[type.value] = cls]_vars

(***************************************************************************)
(* Further properties of the stream connection.                            *)
(***************************************************************************)
\* C25: between data_received calls the receive buffer of a connection holds
\* no complete frame: unpack on it returns (None, buffer).  A data_received
\* call hands every complete frame of its buffer and chunk to
\* on_recv_message, in order, and keeps exactly the bytes after them.
C25_ReceiveBuffer ==
    /\ [](\A self \in Protocols :
             unpack(serializer, buffer[self]) = <<None, buffer[self]>>)
    /\ [][\A self \in Protocols :
             delivered'[self] # delivered[self] =>
                 LET chunk == SubSeq(delivered'[self], Len(delivered[self]) + 1,
                                     Len(delivered'[self]))
                     new == SubSeq(history'[self], Len(history[self]) + 1,
                                   Len(history'[self]))
                 IN /\ SubSeq(history'[self], 1, Len(history[self])) = history[self]
                    /\ Len(Messages(new)) = Len(new)
                    /\ PackAll(Messages(new)) \o buffer'[self] = buffer[self] \o chunk]_vars

C25_Witness ==
    /\ Messages(history[<<"server", 1>>]) = <<Ping>>
    /\ buffer[<<"server", 1>>] = <<2, 0>>
    /\ wire[<<"server", 1>>] = <<0>>

\* where a Connection is in its life: 0 not created, 1 Connecting (its link
\* was opened), 2 Connected (it holds a transport), 3 Disconnected for good
\* (it was connected and holds no transport)
Stage(self) ==
    IF transport[self] = "transport" THEN 2
    ELSE IF history[self] # <<>> THEN 3
    ELSE IF self[2] <= links THEN 1
    ELSE 0

\* a protocol object as TCPMessageProtocol.__init__ leaves it
Fresh(self) ==
    /\ transport[self] = "None"
    /\ buffer[self] = <<>>
    /\ history[self] = <<>>
    /\ tstate[self] = "unborn"

\* C27: a Connection only moves forward through Disconnected, Connecting,
\* Connected, Disconnected: once it has been connected and has lost its
\* transport, by disconnect() or by connection_lost, the transport is never
\* set again; every connect attempt of the client works on a new Connection
\* with an empty receive buffer, and that one is what connect() stores.
C27_LifecycleOneWay ==
    /\ [][\A self \in Protocols :
             /\ Stage(self)' \in {Stage(self), Stage(self) + 1}
             /\ (transport'[self] = "transport" /\ transport[self] = "None")
                    => history[self] = <<>>]_vars
    /\ [][(connecting' # 0 /\ connecting = 0) =>
             /\ links' = links + 1
             /\ connecting' = links'
             /\ Fresh(<<"client", connecting'>>)]_vars
    /\ [][(protocol' # protocol /\ protocol' # 0) =>
             /\ protocol' = connecting
             /\ protocol' = links
             /\ protocol' > protocol]_vars

C27_Witness ==
    /\ protocol = 2
    /\ transport[<<"client", 2>>] = "transport"
    /\ buffer[<<"client", 2>>] = <<>>
    /\ Stage(<<"client", 1>>) = 3
    /\ buffer[<<"client", 1>>] # <<>>
    /\ Lost \in {history[<<"client", 1>>][i] : i \in 1..Len(history[<<"client", 1>>])}

\* C28: when a strict prefix of a frame has arrived and nothing more does, the
\* incomplete bytes stay in the buffer and no on_recv_message is made for
\* them: the calls made are exactly the complete frames that arrived, the
\* buffer only changes when bytes arrive, and the one callback a connection
\* that waits for the rest of a frame can get without new bytes is
\* on_connection_lost, which leaves the buffer as it is.
C28_StalledPeer ==
    /\ [](\A self \in Protocols :
             PackAll(Messages(history[self])) \o buffer[self] = delivered[self])
    /\ [][\A self \in Protocols :
             (buffer[self] # <<>> /\ delivered'[self] = delivered[self]) =>
                 /\ buffer'[self] = buffer[self]
                 /\ history'[self] \in {history[self], Append(history[self], Lost)}]_vars

C28_Witness ==
    /\ buffer[<<"server", 1>>] = <<1, 0, 4, 112>>
    /\ history[<<"server", 1>>] = <<Made, Lost>>
    /\ tstate[<<"server", 1>>] = "closed"
    /\ transport[<<"server", 1>>] = "None"
    /\ delivered[<<"server", 1>>] = buffer[<<"server", 1>>]

\* C29: whatever class statements have run, and whether they raised or not,
\* every type code the registry holds lies in [0, 256^type_size_bytes) and
\* maps to one class, which no later declaration replaces; a class statement
\* that declares a code outside that range raises and registers nothing.
C29_RegistryInvariant ==
    /\ [](\A code \in TypeCodes :
             CLS_BY_TYPE[code] # "None" =>
                 0 <= code /\ code < Pow(256, TYPE_SIZE_BYTES))
    /\ [][\A code \in TypeCodes :
             CLS_BY_TYPE[code] # "None" => CLS_BY_TYPE'[code] = CLS_BY_TYPE[code]]_vars
    /\ [][\A cls \in MessageClasses, type \in MessageTypes :
             (/\ module # "examples.simple_networking.messages"
              /\ Declare(cls, type)
              /\ type.int
              /\ ~(0 <= type.value /\ type.value < Pow(256, TYPE_SIZE_BYTES)))
                 => /\ thrown'.error # ""
                    /\ CLS_BY_TYPE' = CLS_BY_TYPE]_vars

(***************************************************************************)
(* Further properties of the route table.                                  *)
(***************************************************************************)
\* what a dispatch of a type code comes to: the error of an unregistered
\* code, or the handler bound to its class ("None" when there is none)
Selected(type) ==
    IF CLS_BY_TYPE[type] = "None" THEN "KeyError" ELSE routes[CLS_BY_TYPE[type]]

\* C30: handling on_recv_message, with a handler found, with none bound, or
\* with the error of an unregistered type code, leaves the route table and the
\* registry as they were, so every type code selects after the call what it
\* selected before it.
C30_DispatchStateless ==
    [][\A type \in DispatchTypes, payload \in DispatchPayloads :
          Dispatch(type, payload) =>
              /\ CLS_BY_TYPE' = CLS_BY_TYPE
              /\ routes' = routes
              /\ \A code \in DispatchTypes : Selected(code)' = Selected(code)]_vars

C30_Witness ==
    /\ built
    /\ Len(routed) = 2
    /\ routed[1] = routed[2]
    /\ routed[1] = <<"on_update", <<"GameUpdate", <<7>>>>>>
    /\ thrown = Outcome("dispatch", 1, "")
    /\ Selected(0) = "None"
    /\ Selected(99) = "KeyError"

(***************************************************************************)
(* Calls made from inside the callbacks of a connection.                   *)
(***************************************************************************)
\* C31: while connect() is suspended in the handshake of a client that was
\* not connected, no callback of the new connection (connection_made, or a
\* data_received before connect() resumes) makes Client.connected true,
\* since the protocol is stored only when connect() resumes; Client.send from
\* inside on_connection_made fails and writes nothing, while the connection
\* itself holds its transport and send on the callback's protocol argument
\* writes the packed frame.
C31_ConnectedAfterCallback ==
    /\ [][(connecting # 0 /\ ~connected /\ connecting' = connecting)
              => ~connected']_vars
    /\ [][\A self \in ClientEnds, via \in Vias, frame \in SendFrames :
              (ConnectionMadeSending(self, via, frame[1], frame[2]) /\ ~connected) =>
                  /\ protocol' # self[2]
                  /\ transport'[self] # "None"
                  /\ history'[self] = Append(history[self], Made)
                  /\ via = "client" =>
                        /\ lastCall'.raised = "AssertionError"
                        /\ written' = written
                        /\ wire' = wire
                        /\ escaped' = Append(escaped,
                               Raised("connection_made", self, "AssertionError"))
                  /\ via = "protocol" =>
                        /\ lastCall' = Call("protocol", self, "")
                        /\ written'[self] =
                               written[self] \o pack(serializer, frame[1], frame[2])
                        /\ escaped' = escaped]_vars

\* the first connection's handler called Client.send from on_connection_made
\* and failed; the second connection's handler sent a ping on the protocol it
\* was handed, and connect() has not resumed yet
C31_Witness ==
    /\ escaped = <<Raised("connection_made", <<"client", 1>>, "AssertionError")>>
    /\ connecting = 2
    /\ ~connected
    /\ transport[<<"client", 2>>] # "None"
    /\ lastCall = Call("protocol", <<"client", 2>>, "")
    /\ written[<<"client", 2>>] = pack(serializer, Ping[1], Ping[2])
    /\ written[<<"client", 1>>] = <<>>

\* the complete frames a data_received call with the next k bytes finds in
\* its buffer and chunk, as on_recv_message calls
Arrived(self, k) ==
    unpack_loop(buffer[self] \o SubSeq(wire[self], 1, k), <<>>)[1]

\* the handler's reaction to every frame from the i-th to the j-th is in set
Reacts(calls, react, i, j, set) ==
    \A m \in i..j : react[calls[m].type] \in set

Receiver == <<"client", 1>>

\* C32: when the handler calls disconnect() on the protocol from inside
\* on_recv_message (reached through handlers that returned or replied), the
\* connection is no longer Connected and holds no transport, and the complete
\* frames that follow in the same data_received call are still handed to
\* on_recv_message: all of them when their handlers return, and up to the
\* first one whose handler calls send, which fails with the not-connected
\* error and writes nothing.
C32_ReentrantDisconnect ==
    [][\A k \in 1..Len(wire[Receiver]), react \in [FrameTypes -> Reactions],
         fatal \in BOOLEAN :
          DataReceivedHandled(Receiver, k, react, fatal) =>
              LET calls == Arrived(Receiver, k)
              IN \A i \in 1..Len(calls) :
                    (/\ react[calls[i].type] = "disconnect"
                     /\ Reacts(calls, react, 1, i - 1, {"return", "send"})) =>
                        /\ transport'[Receiver] = "None"
                        /\ ~IsConnected(Receiver)'
                        /\ tstate'[Receiver] = "closing"
                        /\ Reacts(calls, react, i + 1, Len(calls),
                                  {"return", "disconnect"}) =>
                              /\ history'[Receiver] = history[Receiver] \o calls
                              /\ escaped' = escaped
                        /\ \A j \in (i + 1)..Len(calls) :
                              (/\ react[calls[j].type] = "send"
                               /\ Reacts(calls, react, i + 1, j - 1,
                                         {"return", "disconnect"})) =>
                                  /\ history'[Receiver] =
                                         history[Receiver] \o SubSeq(calls, 1, j)
                                  /\ lastCall' =
                                         Call("protocol", Receiver, "AssertionError")
                                  /\ escaped' = Append(escaped,
                                         Raised("data_received", Receiver,
                                                "AssertionError"))
                                  /\ Len(written'[Receiver]) - Len(written[Receiver])
                                         = Len(Replies(1)) * Cardinality(
                                             {m \in 1..(i - 1) :
                                                 react[calls[m].type] = "send"})]_vars

\* one chunk held a ping and an empty frame: the handler of the ping
\* disconnected, the empty frame was still delivered, and the send its
\* handler tried failed
C32_Witness ==
    /\ history[Receiver] = <<Made, Called("on_recv_message", Ping[1], Ping[2]),
                             Called("on_recv_message", 2, <<>>)>>
    /\ transport[Receiver] = "None"
    /\ closeCalled[Receiver]
    /\ tstate[Receiver] = "closing"
    /\ escaped = <<Raised("data_received", Receiver, "AssertionError")>>
    /\ written[Receiver] = <<>>
    /\ buffer[Receiver] = <<>>

\* C33: when on_recv_message raises inside data_received, after handlers that
\* returned, the calls made are the frames up to the one that raised, the
\* error leaves data_received, and the buffer holds exactly the bytes after
\* that frame, the complete frames that followed it included; every
\* data_received call hands over leading frames of its buffer and chunk in
\* order, so the frames left behind are the first ones of the next call, and
\* in every state the frames handed over, re-packed, followed by the buffer
\* are the bytes that arrived: no frame is handed over twice.
C33_HandlerRaises ==
    /\ [](PackAll(Messages(history[Receiver])) \o buffer[Receiver]
              = delivered[Receiver])
    /\ [][\A k \in 1..Len(wire[Receiver]), react \in [FrameTypes -> Reactions],
           fatal \in BOOLEAN :
            DataReceivedHandled(Receiver, k, react, fatal) =>
                LET calls == Arrived(Receiver, k)
                    new == SubSeq(history'[Receiver], Len(history[Receiver]) + 1,
                                  Len(history'[Receiver]))
                IN /\ IsPrefix(history[Receiver], history'[Receiver])
                   /\ IsPrefix(new, calls)
                   /\ Reacts(calls, react, 1, Len(calls), {"return"}) => new = calls
                   /\ \A j \in 1..Len(calls) :
                         (/\ react[calls[j].type] = "raise"
                          /\ Reacts(calls, react, 1, j - 1, {"return"})) =>
                             /\ new = SubSeq(calls, 1, j)
                             /\ escaped' = Append(escaped,
                                    Raised("data_received", Receiver, "KeyError"))
                             /\ buffer'[Receiver] =
                                    PackAll(Messages(SubSeq(calls, j + 1, Len(calls))))
                                        \o unpack_loop(buffer[Receiver]
                                               \o SubSeq(wire[Receiver], 1, k), <<>>)[2]]_vars

\* the handler of the ping raised while an empty frame followed it in the
\* chunk: the empty frame waits, complete, in the buffer of a connection that
\* the event loop left open
C33_Witness ==
    /\ escaped = <<Raised("data_received", Receiver, "KeyError")>>
    /\ history[Receiver] = <<Made, Called("on_recv_message", Ping[1], Ping[2])>>
    /\ delivered[Receiver] = PackAll(<<Ping, <<2, <<>>>>>>)
    /\ buffer[Receiver] = pack(serializer, 2, <<>>)
    /\ tstate[Receiver] = "open"

(***************************************************************************)
(* Sends at the edges of the header fields.                                *)
(***************************************************************************)
\* the preconditions of send on the type code and the payload length
InRange(type, payload) ==
    /\ 0 <= type
    /\ type < Pow(256, serializer.type_size_bytes)
    /\ Len(payload) < Pow(256, serializer.data_size_bytes)

Sender == <<"client", 1>>

\* C34: a send on a connected client whose type is outside
\* [0, 256^type_size_bytes) or whose payload has 256^data_size_bytes bytes or
\* more fails in pack and writes nothing; a send within the range, a payload
\* of 256^data_size_bytes - 1 bytes included, writes the packed frame.  The
\* bytes written are always the packed frames of in-range sends, and what the
\* peer is handed are those frames, unchanged and in order.
C34_OutOfRangeSend ==
    /\ [](\A self \in Opened(MaxLinks) :
             /\ written[self] = PackAll(sent[self])
             /\ \A i \in 1..Len(sent[self]) : InRange(sent[self][i][1], sent[self][i][2]))
    /\ [](\A self \in Opened(MaxLinks) :
             self[1] = "client" =>
                 IsPrefix(Messages(history[Peer(self)]), sent[self]))
    /\ [][\A frame \in EdgeFrames :
             (ClientSend(frame[1], frame[2]) /\ connected) =>
                 IF InRange(frame[1], frame[2])
                 THEN /\ lastCall'.raised = ""
                      /\ written'[<<"client", protocol>>] =
                             written[<<"client", protocol>>]
                                 \o pack(serializer, frame[1], frame[2])
                      /\ Len(written'[<<"client", protocol>>]) =
                             Len(written[<<"client", protocol>>])
                                 + serializer.type_size_bytes
                                 + serializer.data_size_bytes + Len(frame[2])
                 ELSE /\ lastCall'.raised = "OverflowError"
                      /\ written' = written
                      /\ wire' = wire
                      /\ sent' = sent]_vars

\* with the 2-byte length field a payload of 65535 bytes was sent and handed
\* to the peer as it was, and a send after it was rejected by pack
C34_Witness ==
    /\ serializer.data_size_bytes = 2
    /\ sent[Sender] = << <<0, Zeros(65535)>> >>
    /\ Len(written[Sender]) = 65538
    /\ Messages(history[Peer(Sender)]) = << <<0, Zeros(65535)>> >>
    /\ buffer[Peer(Sender)] = <<>>
    /\ lastCall = Call("protocol", Sender, "OverflowError")

(***************************************************************************)
(* Rejected declarations.                                                  *)
(***************************************************************************)
\* the number of type codes a skeleton module accepts
Capacity ==
    IF module = "skeleton.networking"
    THEN NETWORKING_MAX_MESSAGE_TYPES
    ELSE MAX_MESSAGE_TYPES

\* C35: a class statement that is rejected leaves the registry exactly as it
\* was, in every module; in skeleton.net and skeleton.networking a
\* declaration with a code that is not an integer, is already registered or
\* is outside the module's range is rejected, the duplicated code still maps
\* to the class registered first, and the rejected class has no entry.
C35_RejectedDeclaration ==
    [][\A cls \in MessageClasses, type \in MessageTypes :
          Declare(cls, type) =>
              /\ thrown'.error # "" =>
                    /\ CLS_BY_TYPE' = CLS_BY_TYPE
                    /\ \A code \in TypeCodes : CLS_BY_TYPE'[code] # cls
              /\ (/\ module \in {"skeleton.net", "skeleton.networking"}
                  /\ \/ ~type.int
                     \/ CLS_BY_TYPE[type.value] # "None"
                     \/ type.value < 0
                     \/ type.value >= Capacity) =>
                    /\ thrown'.error = "AssertionError"
                    /\ CLS_BY_TYPE' = CLS_BY_TYPE
                    /\ \A code \in TypeCodes : CLS_BY_TYPE'[code] # cls]_vars

\* skeleton.net after one class registered code 1 and a second class that
\* declared the same code was rejected
C35_Witness ==
    /\ module = "skeleton.net"
    /\ CLS_BY_TYPE[1] = "GameUpdate"
    /\ \A code \in TypeCodes \ {1} : CLS_BY_TYPE[code] = "None"
    /\ thrown = Outcome("declare", 1, "AssertionError")

(***************************************************************************)
(* Short datagrams.                                                        *)
(***************************************************************************)
\* C36: a datagram with fewer bytes than the type field, the empty datagram
\* included, raises nothing in datagram_received: on_recv_message is called
\* once with the type read from the bytes present (0 when there are none)
\* and an empty payload, as for any other datagram.
C36_ShortDatagram ==
    [][\A side \in Sides : \A i \in 1..Len(inflight[side]) :
          (/\ DatagramReceived(side, i)
           /\ Len(inflight[side][i].bytes) < serializer.type_size_bytes) =>
              LET bytes == inflight[side][i].bytes
                  code == IF bytes = <<>> THEN 0
                          ELSE from_bytes(bytes, serializer.byteorder)
              IN /\ udpCalls'[side] =
                        Append(udpCalls[side], Called("on_recv_message", code, <<>>))
                 /\ code < Pow(256, Len(bytes))
                 /\ escaped' = escaped
                 /\ udpLast' = udpLast]_vars

\* an endpoint with a 2-byte type field was handed the empty datagram and a
\* datagram of one byte
C36_Witness ==
    /\ serializer.type_size_bytes = 2
    /\ udpCalls["server"] = <<Made, Called("on_recv_message", 0, <<>>),
                              Called("on_recv_message", 5, <<>>)>>
    /\ inflight["server"] = <<>>

(***************************************************************************)
(* Restarting the Server.                                                  *)
(***************************************************************************)
\* the listener the most recent create_server call made is open
LatestOpen ==
    /\ listeners # <<>>
    /\ listeners[Len(listeners)] = "listening"

\* C37: a stream Server whose start and stop calls alternate, each awaited
\* before the next: between the calls the running flag is true exactly when
\* the listener created by the most recent start is open, that listener is
\* the one Server._server refers to, and no older listener is open; a start
\* that resumes after a completed stop creates a new listener and invokes
\* on_start again.
C37_Restart ==
    /\ [](Quiet =>
             /\ running <=> LatestOpen
             /\ running => (server.type = "Server" /\ server.listener = Len(listeners))
             /\ \A i \in 1..(Len(listeners) - 1) : listeners[i] = "closed")
    /\ [][\A t \in StartTasks :
             (StartResume(t) /\ Occurrences("released") > 0) =>
                 /\ Len(listeners') = Len(listeners) + 1
                 /\ listeners'[Len(listeners')] = "listening"
                 /\ Occurrences("on_start")' = Occurrences("on_start") + 1
                 /\ serverLog'[Len(serverLog')] = Event("on_start", Len(listeners'))
                 /\ running']_vars

\* started, stopped and started again: the second listener is open, the
\* first is closed, and on_start has run twice
C37_Witness ==
    /\ Quiet
    /\ running
    /\ listeners = <<"closed", "listening">>
    /\ server = Ref("Server", 2)
    /\ serverLog = <<Event("listening", 1), Event("on_start", 1),
                     Event("on_stop", 1), Event("close", 1), Event("released", 1),
                     Event("listening", 2), Event("on_start", 2)>>

=============================================================================
